---- MODULE Spec2Model ----
(***************************************************************************)
(* Teaching-event normalization, board pagination, step repair and the     *)
(* chat overlay adapter of backend/app/services/ai_service.py.             *)
(*                                                                         *)
(* Conventions of the translation                                          *)
(*  - A Python dict is a function from its present keys to their values:   *)
(*    d.get(k) is guarded by Has(d, k), d[k] = v is Put(d, k, v).          *)
(*  - Enumerated strings (types, zones, lanes, ...) and texts are TLA+     *)
(*    strings.  Identifier strings built by f-strings (event ids, chain    *)
(*    ids, group ids, scene ids) are 5-tuples <<template, s, n1, n2, n3>>  *)
(*    of the template and its arguments; a literal identifier the model    *)
(*    supplied is Lit(s).                                                  *)
(*  - Heights are in thousandths of a board unit, so that the float        *)
(*    coefficients of the height estimate (0.24, 0.14 * 0.55) are exact.   *)
(*  - A uuid4() draw is a token u; the draws of one call share the call's  *)
(*    token (ids of one call already differ by their index), and different *)
(*    calls use different tokens.                                          *)
(***************************************************************************)
EXTENDS Integers, Sequences, FiniteSets, TLC

VARIABLES input, pc, events, out, out2

vars == <<input, pc, events, out, out2>>

(***************************************************************************)
(* Dictionaries                                                            *)
(***************************************************************************)
Empty == <<>>

Has(d, k) == k \in DOMAIN d

Put(d, k, v) == [y \in (DOMAIN d) \cup {k} |-> IF y = k THEN v ELSE d[y]]

Pop(d, k) == [y \in (DOMAIN d) \ {k} |-> d[y]]

SetDefault(d, k, v) == IF Has(d, k) THEN d ELSE Put(d, k, v)

\* d.get(k) in allowed
HasIn(d, k, allowed) == Has(d, k) /\ d[k] \in allowed

\* Optional values are sets with at most one element.
One(opt) == CHOOSE v \in opt : TRUE

Entry(k, opt) == IF opt = {} THEN Empty ELSE (k :> One(opt))

\* raw.get(k1) or raw.get(k2), for string values ("" is falsy)
FirstTruthy(raw, k1, k2, falsy) ==
    IF Has(raw, k1) /\ raw[k1] # falsy THEN {raw[k1]}
    ELSE IF Has(raw, k2) THEN {raw[k2]} ELSE {}

\* v = raw.get(k1); if v is None: v = raw.get(k2)
FirstNotNone(raw, k1, k2) ==
    IF Has(raw, k1) THEN {raw[k1]}
    ELSE IF Has(raw, k2) THEN {raw[k2]} ELSE {}

Max(a, b) == IF a >= b THEN a ELSE b

Min(a, b) == IF a <= b THEN a ELSE b

Clamp(v, lo, hi) == Min(Max(v, lo), hi)

(***************************************************************************)
(* Identifier strings                                                      *)
(***************************************************************************)
Lit(s) == <<"lit", s, 0, 0, 0>>

NoStr == Lit("")

\* f"s{step_number}_e{event_index}_{uuid.uuid4().hex[:6]}"
GenerateEventId(step_number, event_index, u) ==
    <<"s{}_e{}_{}", "", step_number, event_index, u>>

\* f"{id_prefix}_{i}_{uuid.uuid4().hex[:6]}" with id_prefix = "chat"
StreamEventId(id_prefix, i, u) == <<"{}_{}_{}", id_prefix, i, u, 0>>

\* f"{id_prefix}_chain_{chain_step}"; id_prefix is "s{step_number}" or "chat"
StreamChainId(id_prefix, prefix_step, chain_step) ==
    <<"{}_chain_{}", id_prefix, prefix_step, chain_step, 0>>

\* f"step_chain_{payload.get('step_number', 0)}"
StepChainId(step_number) == <<"step_chain_{}", "", step_number, 0, 0>>

\* f"s{step_number}_fallback_chain"
FallbackChainId(step_number) == <<"s{}_fallback_chain", "", step_number, 0, 0>>

\* f"{payload['lane']}-{payload['anchor']}"
SceneIdOf(lane, anchor) == <<"{}-{}", lane, 0, 0, 0, anchor>>

(***************************************************************************)
(* Texts: the strings the model reads, with what the code computes of them *)
(***************************************************************************)
\* len(text), len(text.split()), the keywords of the phase heuristic found in
\* text.lower(), and whether text.strip().lower() ends with ":" or is a
\* region name.
TextInfo(t) ==
    CASE t = "" ->
           [len |-> 0, words |-> 0, kw |-> {}, heading |-> FALSE]
      [] t = "Subtract 3 from both sides." ->
           [len |-> 27, words |-> 5, kw |-> {}, heading |-> FALSE]
      [] t = "Notice the sign flips." ->
           [len |-> 22, words |-> 4, kw |-> {"notice"}, heading |-> FALSE]
      [] t = "Combine like terms." ->
           [len |-> 19, words |-> 3, kw |-> {}, heading |-> FALSE]
      [] t = "Given:" ->
           [len |-> 6, words |-> 1, kw |-> {"given"}, heading |-> TRUE]
      [] t = "Set up the next transformation." ->
           [len |-> 31, words |-> 5, kw |-> {}, heading |-> FALSE]
      [] t = "Notice this transformation and why it keeps the equation consistent." ->
           [len |-> 68, words |-> 10, kw |-> {"notice"}, heading |-> FALSE]
      [] t = "Let's work through Solve." ->
           [len |-> 25, words |-> 4, kw |-> {}, heading |-> FALSE]
      [] t = "Let's work through Check the answer." ->
           [len |-> 36, words |-> 6, kw |-> {"answer", "check"}, heading |-> FALSE]
      [] t = "First, we set up solve." ->
           [len |-> 23, words |-> 5, kw |-> {"first"}, heading |-> FALSE]
      [] t = "First, we set up check the answer." ->
           [len |-> 34, words |-> 7, kw |-> {"answer", "check", "first"}, heading |-> FALSE]
      [] t = "Step 1: Solve" ->
           [len |-> 13, words |-> 3, kw |-> {}, heading |-> FALSE]
      [] t = "Step 1: Check the answer" ->
           [len |-> 24, words |-> 5, kw |-> {"answer", "check"}, heading |-> FALSE]
      [] t = "Use the power rule" ->
           [len |-> 18, words |-> 4, kw |-> {}, heading |-> FALSE]

\* len(latex) and the counts of _latex_complexity_score
LatexInfo(l) ==
    CASE l = "" ->
           [len |-> 0, operators |-> 0, radicals |-> 0, fractions |-> 0]
      [] l = "x+1=2" ->
           [len |-> 5, operators |-> 2, radicals |-> 0, fractions |-> 0]
      [] l = "x^2" ->
           [len |-> 3, operators |-> 0, radicals |-> 0, fractions |-> 0]
      [] l = "\\frac{x}{2}=\\sqrt{y}" ->
           [len |-> 20, operators |-> 1, radicals |-> 1, fractions |-> 1]

\* f"Let's work through {step_title}."
WorkThroughText(step_title) ==
    CASE step_title = "Solve" -> "Let's work through Solve."
      [] step_title = "Check the answer" -> "Let's work through Check the answer."

\* f"First, we set up {step_title.lower()}."
SetUpText(step_title) ==
    CASE step_title = "Solve" -> "First, we set up solve."
      [] step_title = "Check the answer" -> "First, we set up check the answer."

\* f"Step {step_number}: {step.get('title', '')}"
StepTitleText(step_number, step_title) ==
    CASE step_number = 1 /\ step_title = "Solve" -> "Step 1: Solve"
      [] step_number = 1 /\ step_title = "Check the answer" -> "Step 1: Check the answer"

(***************************************************************************)
(* Constant tables                                                         *)
(***************************************************************************)
AllowedAnchors == {"given", "work", "scratch", "final"}

AllowedZones == {"given", "main", "scratch", "final"}

AllowedIntents == {"introduce", "derive", "emphasize", "result", "side_note"}

AllowedLanes == {"given", "derivation", "scratch", "final"}

AllowedTeachingPhases == {"setup", "derive", "checkpoint", "result"}

AllowedSceneTemplates == {"given_intro", "derive_chain", "scratch_note", "final_result"}

AllowedSlotRoles == {"heading", "equation", "explanation", "result"}

DrawTypes ==
    {"draw_line", "draw_arrow", "draw_rect", "draw_circle", "draw_axes", "plot_curve"}

WriteTypes == {"write_equation", "write_text"}

VisualTypes == WriteTypes \cup DrawTypes

IsVisualEvent(event_type) == event_type \in VisualTypes

\* _LANE_HEIGHT_BUDGET, in thousandths
LaneHeightBudget(lane) ==
    CASE lane = "given" -> 168000
      [] lane = "derivation" -> 444000
      [] lane = "scratch" -> 638000
      [] lane = "final" -> 132000

MaxBoardPage == 8

LaneGap == 14000

LaneCursorStart == 8000

MinReserveHeight == 28000

MaxReserveHeight == 240000

ChatNarrateCap == 1

ChatVisualCap == 4

(***************************************************************************)
(* Placement resolution                                                    *)
(***************************************************************************)
AnchorToZone(anchor) == IF anchor = "work" THEN "main" ELSE anchor

ZoneToAnchor(zone) == IF zone = "main" THEN "work" ELSE zone

AnchorToLane(anchor) == IF anchor = "work" THEN "derivation" ELSE anchor

LaneToAnchor(lane) == IF lane = "derivation" THEN "work" ELSE lane

DefaultAnchorForEvent(event_type, payload) ==
    IF HasIn(payload, "anchor", AllowedAnchors) THEN payload["anchor"]
    ELSE IF HasIn(payload, "zone", AllowedZones) THEN ZoneToAnchor(payload["zone"])
    ELSE IF event_type \in DrawTypes THEN "scratch"
    ELSE "work"

InferSceneTemplate(anchor, event_type) ==
    IF anchor = "given" THEN "given_intro"
    ELSE IF anchor = "scratch" THEN "scratch_note"
    ELSE IF anchor = "final" THEN "final_result"
    ELSE "derive_chain"

InferSlotRole(event_type, payload, anchor) ==
    IF anchor = "final" \/ (Has(payload, "intent") /\ payload["intent"] = "result")
    THEN "result"
    ELSE IF event_type = "write_equation" THEN "equation"
    ELSE IF event_type = "write_text"
    THEN IF TextInfo(IF Has(payload, "text") THEN payload["text"] ELSE "").heading
         THEN "heading" ELSE "explanation"
    ELSE "explanation"

DefaultSyncHoldMs(payload) ==
    LET phase == IF Has(payload, "teaching_phase") THEN payload["teaching_phase"] ELSE "None"
        intent == IF Has(payload, "intent") THEN payload["intent"] ELSE "None"
    IN  IF phase = "result" \/ intent = "result" THEN 280
        ELSE IF phase = "checkpoint" \/ intent = "emphasize" THEN 220
        ELSE IF phase = "setup" THEN 160
        ELSE 120

\* zone / anchor / lane: lines 743-759 of _normalize_payload_semantics
ResolvePlacement(payload, event_type) ==
    LET laneOk == HasIn(payload, "lane", AllowedLanes)
        p1 == IF laneOk THEN Put(payload, "anchor", LaneToAnchor(payload["lane"]))
              ELSE payload
        anchorOk == HasIn(p1, "anchor", AllowedAnchors)
        anchor == IF anchorOk THEN p1["anchor"] ELSE DefaultAnchorForEvent(event_type, p1)
        p2 == IF anchorOk THEN p1 ELSE Put(p1, "anchor", anchor)
        p3 == IF laneOk THEN p2 ELSE Put(p2, "lane", AnchorToLane(anchor))
    IN  IF ~HasIn(p3, "zone", AllowedZones) THEN Put(p3, "zone", AnchorToZone(anchor))
        ELSE IF ~Has(p3, "anchor") THEN Put(p3, "anchor", ZoneToAnchor(p3["zone"]))
        ELSE p3

\* intent: lines 761-769
ResolveIntent(payload) ==
    IF HasIn(payload, "intent", AllowedIntents) THEN payload
    ELSE Put(payload, "intent",
             IF payload["anchor"] = "given" THEN "introduce"
             ELSE IF payload["anchor"] = "final" THEN "result"
             ELSE IF payload["anchor"] = "scratch" THEN "side_note"
             ELSE "derive")

\* teaching_phase: lines 771-781
ResolveTeachingPhase(payload) ==
    IF HasIn(payload, "teaching_phase", AllowedTeachingPhases) THEN payload
    ELSE Put(payload, "teaching_phase",
             IF payload["intent"] = "introduce" THEN "setup"
             ELSE IF payload["intent"] = "result" THEN "result"
             ELSE IF payload["intent"] = "emphasize" THEN "checkpoint"
             ELSE "derive")

\* scene_template, slot_role, scene_id, sync_hold_ms: lines 783-799
ResolveScene(payload, event_type) ==
    LET p1 == IF HasIn(payload, "scene_template", AllowedSceneTemplates) THEN payload
              ELSE Put(payload, "scene_template",
                       InferSceneTemplate(payload["anchor"], event_type))
        p2 == IF HasIn(p1, "slot_role", AllowedSlotRoles) THEN p1
              ELSE Put(p1, "slot_role", InferSlotRole(event_type, p1, p1["anchor"]))
        p3 == IF Has(p2, "scene_id") /\ p2["scene_id"] # NoStr THEN p2
              ELSE IF Has(p2, "transform_chain_id") /\ p2["transform_chain_id"] # NoStr
                   THEN Put(p2, "scene_id", p2["transform_chain_id"])
                   ELSE Put(p2, "scene_id", SceneIdOf(p2["lane"], p2["anchor"]))
    IN  IF Has(p3, "sync_hold_ms") THEN p3
        ELSE Put(p3, "sync_hold_ms", DefaultSyncHoldMs(p3))

NormalizePayloadSemantics(payload, event_type) ==
    ResolveScene(
        ResolveTeachingPhase(ResolveIntent(ResolvePlacement(payload, event_type))),
        event_type)

(***************************************************************************)
(* Payload building                                                        *)
(***************************************************************************)
ClampKey(payload, k, lo, hi) ==
    IF Has(payload, k) THEN Put(payload, k, Clamp(payload[k], lo, hi)) ELSE payload

\* board_page in [0, 8], slot_index >= 0, reserve_height in [28, 240]; the
\* board coordinates x, y, x1, ... are carried by no event of this model.
ClampPayloadCoordinates(payload) ==
    LET p1 == ClampKey(payload, "board_page", 0, MaxBoardPage)
        p2 == IF Has(p1, "slot_index") THEN Put(p1, "slot_index", Max(p1["slot_index"], 0))
              ELSE p1
    IN  ClampKey(p2, "reserve_height", MinReserveHeight, MaxReserveHeight)

\* The recognized keys of a raw record, each under its canonical name.  A raw
\* value of the wrong JSON type is an absent key.
BuildCommonPayload(raw) ==
    LET zone == {v \in FirstTruthy(raw, "zone", "board_zone", "") : v \in AllowedZones}
        anchor == {v \in FirstTruthy(raw, "anchor", "board_anchor", "") : v \in AllowedAnchors}
        lane == {v \in FirstNotNone(raw, "lane", "lane") : v \in AllowedLanes}
        chain == {v \in FirstTruthy(raw, "transform_chain_id", "transformChainId", NoStr) :
                     v # NoStr}
        group == {v \in FirstTruthy(raw, "group_id", "groupId", NoStr) : v # NoStr}
        intent == {v \in FirstNotNone(raw, "intent", "intent") : v \in AllowedIntents}
        phase == {v \in FirstTruthy(raw, "teaching_phase", "teachingPhase", "") :
                     v \in AllowedTeachingPhases}
        template == {v \in FirstTruthy(raw, "scene_template", "sceneTemplate", "") :
                        v \in AllowedSceneTemplates}
        scene == {v \in FirstTruthy(raw, "scene_id", "sceneId", NoStr) : v # NoStr}
        role == {v \in FirstTruthy(raw, "slot_role", "slotRole", "") : v \in AllowedSlotRoles}
        hold == {Clamp(v, 0, 1200) : v \in FirstNotNone(raw, "sync_hold_ms", "syncHoldMs")}
        order == {Max(v, 0) : v \in FirstNotNone(raw, "render_order", "renderOrder")}
        align == {v \in FirstNotNone(raw, "align", "align") : v \in {"left", "center", "right"}}
    IN  ClampPayloadCoordinates(
            Entry("zone", zone) @@ Entry("anchor", anchor) @@ Entry("lane", lane)
            @@ Entry("board_page", FirstNotNone(raw, "board_page", "boardPage"))
            @@ Entry("slot_index", FirstNotNone(raw, "slot_index", "slotIndex"))
            @@ Entry("reserve_height", FirstNotNone(raw, "reserve_height", "reserveHeight"))
            @@ Entry("transform_chain_id", chain)
            @@ Entry("is_page_turn_marker",
                     FirstNotNone(raw, "is_page_turn_marker", "isPageTurnMarker"))
            @@ Entry("align", align) @@ Entry("group_id", group) @@ Entry("intent", intent)
            @@ Entry("temporary", FirstNotNone(raw, "temporary", "temporary"))
            @@ Entry("teaching_phase", phase) @@ Entry("scene_template", template)
            @@ Entry("scene_id", scene) @@ Entry("slot_role", role)
            @@ Entry("sync_hold_ms", hold) @@ Entry("render_order", order)
            @@ Entry("layout_locked", FirstNotNone(raw, "layout_locked", "layoutLocked"))
            @@ Entry("points", FirstNotNone(raw, "points", "points")))

\* str(d.get("text", "")), str(d.get("latex", ""))
TextOf(d) == IF Has(d, "text") THEN d["text"] ELSE ""

LatexOf(d) == IF Has(d, "latex") THEN d["latex"] ELSE ""

\* points are carried as their number
PointsOf(d) == IF Has(d, "points") THEN d["points"] ELSE 0

EstimateEventDurationMs(event_type, raw) ==
    CASE event_type = "narrate" -> Max(1500, 400 * TextInfo(TextOf(raw)).words)
      [] event_type = "write_equation" -> Max(1200, LatexInfo(LatexOf(raw)).len * 50)
      [] event_type = "write_text" -> Max(800, TextInfo(TextOf(raw)).len * 30)
      [] event_type \in {"draw_line", "draw_arrow"} -> 900
      [] event_type \in {"draw_rect", "draw_circle"} -> 1000
      [] event_type = "draw_axes" -> 1300
      [] event_type = "plot_curve" -> Max(1000, 450 + PointsOf(raw) * 80)
      [] event_type = "annotate" -> 600
      [] event_type = "clear_section" -> 400
      [] event_type = "pause" -> 1200
      [] OTHER -> 800

\* 1000 * 0.14 * _latex_complexity_score(latex)
LatexComplexityScore(latex) ==
    LET i == LatexInfo(latex)
    IN  77 * i.len + 700 * i.operators + 1120 * i.radicals + 1400 * i.fractions

\* The optional default height of an event, in thousandths.
DefaultReserveHeight(event_type, raw) ==
    CASE event_type = "write_equation" ->
           {Max(56000, Min(150000, 56000 + LatexComplexityScore(LatexOf(raw))))}
      [] event_type = "write_text" ->
           {Max(34000, Min(90000, 34000 + 240 * TextInfo(TextOf(raw)).len))}
      [] event_type \in {"draw_line", "draw_arrow"} -> {64000}
      [] event_type \in {"draw_rect", "draw_circle"} -> {96000}
      [] event_type \in {"draw_axes", "plot_curve"} -> {220000}
      [] OTHER -> {}

Event(id, type, duration, payload) ==
    [id |-> id, type |-> type, duration |-> duration, payload |-> payload]

(***************************************************************************)
(* _process_event_stream                                                   *)
(***************************************************************************)
SetMax(S) == CHOOSE m \in S : \A n \in S : n <= m

\* for prev in reversed(processed): if _is_visual_event(prev["type"]): ... break
LastVisualId(processed) ==
    LET idx == {j \in 1..Len(processed) : IsVisualEvent(processed[j].type)}
    IN  IF idx = {} THEN {} ELSE {processed[SetMax(idx)].id}

Truthy(payload, k) == Has(payload, k) /\ payload[k] # NoStr

\* The type-specific part of the payload (lines 1041-1090); the type is known.
TypedPayload(event_type, raw, payload, processed) ==
    CASE event_type = "narrate" -> Put(payload, "text", TextOf(raw))
      [] event_type = "write_equation" ->
           NormalizePayloadSemantics(
               Pop(Pop(Put(Put(payload, "latex", LatexOf(raw)), "display",
                           IF Has(raw, "display") THEN raw["display"] ELSE TRUE),
                       "width"), "height"),
               event_type)
      [] event_type = "write_text" ->
           NormalizePayloadSemantics(
               Pop(Pop(Put(payload, "text", TextOf(raw)), "width"), "height"), event_type)
      [] event_type = "annotate" ->
           LET p1 == Put(payload, "annotation_type",
                         IF Has(raw, "style") THEN raw["style"] ELSE "highlight")
               p2 == IF HasIn(p1, "intent", AllowedIntents) THEN p1
                     ELSE Put(p1, "intent", "emphasize")
           IN  IF Has(raw, "target") /\ raw["target"] = Lit("previous")
               THEN p2 @@ Entry("target_id", LastVisualId(processed))
               ELSE IF Has(raw, "target") THEN Put(p2, "target_id", raw["target"])
               ELSE p2
      [] event_type = "clear_section" ->
           LET target == {v \in FirstTruthy(raw, "clear_target", "clearTarget", "") :
                             v \in {"zone", "id"}}
               zone == {v \in FirstTruthy(raw, "clear_zone", "clearZone", "") :
                           v \in AllowedZones}
               id == FirstTruthy(raw, "clear_id", "clearId", NoStr)
               p1 == payload @@ Entry("clear_target", target) @@ Entry("clear_zone", zone)
                     @@ Entry("clear_id", id)
           IN  IF ~Has(p1, "clear_target") /\ Has(p1, "clear_zone")
               THEN Put(p1, "clear_target", "zone") ELSE p1
      [] event_type = "pause" -> payload
      [] event_type \in DrawTypes -> NormalizePayloadSemantics(payload, event_type)

KnownTypes == {"narrate", "annotate", "clear_section", "pause"} \cup VisualTypes

\* str(raw.get("type", "narrate"))
RawType(raw) == IF Has(raw, "type") THEN raw["type"] ELSE "narrate"

\* lines 1095-1099: the estimated height of a visual event that carries none
WithDefaultReserve(event_type, source, payload) ==
    IF IsVisualEvent(event_type) /\ ~Has(payload, "reserve_height")
    THEN payload @@ Entry("reserve_height", DefaultReserveHeight(event_type, source))
    ELSE payload

\* The derivation chain carried along the stream (lines 1100-1109): the
\* payload of the event and the chain left open after it.
LinkChain(event_type, payload, chain, fresh) ==
    IF ~IsVisualEvent(event_type) THEN [payload |-> payload, chain |-> chain]
    ELSE IF HasIn(payload, "lane", {"derivation"}) /\ event_type \in WriteTypes
    THEN IF ~Truthy(payload, "transform_chain_id")
         THEN IF chain = {}
              THEN [payload |-> Put(payload, "transform_chain_id", fresh), chain |-> {fresh}]
              ELSE [payload |-> Put(payload, "transform_chain_id", One(chain)),
                    chain |-> chain]
         ELSE [payload |-> payload, chain |-> {payload["transform_chain_id"]}]
    ELSE [payload |-> payload, chain |-> {}]

\* lines 1031-1039.  ctx holds the arguments of the call: has_step
\* (step_number is not None), step_number, id_prefix, offset
\* (event_index_offset) and the uuid token u.
StreamId(i, ctx) ==
    IF ctx.has_step THEN GenerateEventId(ctx.step_number, i + ctx.offset, ctx.u)
    ELSE StreamEventId(ctx.id_prefix, i, ctx.u)

StreamPayload(raw, ctx) ==
    IF ctx.has_step THEN Put(BuildCommonPayload(raw), "step_number", ctx.step_number)
    ELSE BuildCommonPayload(raw)

\* lines 1111-1116
Emit(acc, event_id, event_type, duration, linked) ==
    [processed |-> Append(acc.processed,
                          Event(event_id, event_type, duration, linked.payload)),
     chain |-> linked.chain]

\* One iteration of the loop over raw_events (i counts from 0); acc holds
\* processed and derivation_chain_id.
ProcessRawEvent(raw, i, acc, ctx) ==
    IF RawType(raw) \notin KnownTypes THEN acc
    ELSE Emit(acc, StreamId(i, ctx), RawType(raw),
              EstimateEventDurationMs(RawType(raw), raw),
              LinkChain(RawType(raw),
                        WithDefaultReserve(RawType(raw), raw,
                            TypedPayload(RawType(raw), raw, StreamPayload(raw, ctx),
                                         acc.processed)),
                        acc.chain,
                        StreamChainId(ctx.id_prefix,
                                      IF ctx.has_step THEN ctx.step_number ELSE 0,
                                      IF ctx.has_step THEN ctx.step_number ELSE 0)))

\* ProcessFrom that gives up at the first record of unknown type.
RECURSIVE ProcessFromStopping(_, _, _, _)
ProcessFromStopping(raw_events, i, acc, ctx) ==
    IF i >= Len(raw_events) \/ RawType(raw_events[i + 1]) \notin KnownTypes
    THEN acc.processed
    ELSE ProcessFromStopping(raw_events, i + 1,
                             ProcessRawEvent(raw_events[i + 1], i, acc, ctx), ctx)

RECURSIVE ProcessFrom(_, _, _, _)
ProcessFrom(raw_events, i, acc, ctx) ==
    IF i >= Len(raw_events) THEN acc.processed
    ELSE ProcessFrom(raw_events, i + 1,
                     ProcessRawEvent(raw_events[i + 1], i, acc, ctx), ctx)

StepMarker(step_number, step_title, u) ==
    Event(GenerateEventId(step_number, 0, u), "step_marker", 300,
          [step_number |-> step_number, step_title |-> step_title])

ProcessEventStream(raw_events, ctx, step_title, with_step_marker) ==
    IF with_step_marker /\ ctx.has_step
    THEN ProcessFrom(raw_events, 0,
                     [processed |-> <<StepMarker(ctx.step_number, step_title, ctx.u)>>,
                      chain |-> {}],
                     [ctx EXCEPT !.offset = 1])
    ELSE ProcessFrom(raw_events, 0, [processed |-> <<>>, chain |-> {}],
                     [ctx EXCEPT !.offset = 0])

\* _process_gemini_events: id_prefix = f"s{step_number}", with a step marker
ProcessGeminiEvents(step, u) ==
    ProcessEventStream(step.events,
                       [has_step |-> TRUE, step_number |-> step.step_number,
                        id_prefix |-> "s{}", offset |-> 0, u |-> u],
                       step.title, TRUE)

(***************************************************************************)
(* _apply_preplanned_board_metadata                                        *)
(***************************************************************************)
\* BoardLayoutState at the start of a call (lines 1137-1151)
LayoutStart ==
    [page |-> 0, chain |-> {}, render_order |-> 0,
     lane_cursor |-> [l \in AllowedLanes |-> LaneCursorStart],
     lane_slot |-> [l \in AllowedLanes |-> 0]]

\* float(payload.get("reserve_height") or _default_reserve_height(...) or 72.0)
PlannedReserveHeight(event_type, payload) ==
    IF Has(payload, "reserve_height") /\ payload["reserve_height"] # 0
    THEN payload["reserve_height"]
    ELSE IF DefaultReserveHeight(event_type, payload) \notin {{}, {0}}
    THEN One(DefaultReserveHeight(event_type, payload))
    ELSE 72000

\* lines 1164-1166.  A plan x holds the layout state st, the payload of the
\* event being placed, its type, its lane and its reserve_height.
PlanStart(st, event_type, payload) ==
    [st |-> st, payload |-> payload, type |-> event_type,
     lane |-> IF Has(payload, "lane") THEN payload["lane"] ELSE "derivation",
     reserve_height |-> PlannedReserveHeight(event_type, payload)]

\* lines 1168-1176
PlanChain(x) ==
    IF x.lane = "derivation" /\ x.type \in WriteTypes
    THEN IF ~Truthy(x.payload, "transform_chain_id")
         THEN IF x.st.chain = {}
              THEN [x EXCEPT
                      !.st.chain = {StepChainId(IF Has(x.payload, "step_number")
                                                THEN x.payload["step_number"] ELSE 0)},
                      !.payload = Put(x.payload, "transform_chain_id",
                                      StepChainId(IF Has(x.payload, "step_number")
                                                  THEN x.payload["step_number"] ELSE 0))]
              ELSE [x EXCEPT !.payload = Put(x.payload, "transform_chain_id",
                                             One(x.st.chain))]
         ELSE [x EXCEPT !.st.chain = {x.payload["transform_chain_id"]}]
    ELSE [x EXCEPT !.st.chain = {}]

WouldOverflow(cursor, reserve_height, lane) ==
    cursor + reserve_height > LaneHeightBudget(lane)

\* PlanPage that resets only the lane of the event that turns the page.
PlanPageOwnLane(x) ==
    IF Has(x.payload, "board_page")
    THEN [x EXCEPT !.st.page = Clamp(x.payload["board_page"], 0, MaxBoardPage)]
    ELSE IF WouldOverflow(x.st.lane_cursor[x.lane], x.reserve_height, x.lane)
    THEN [x EXCEPT !.st.page = Min(x.st.page + 1, MaxBoardPage),
                   !.st.lane_cursor[x.lane] = LaneCursorStart,
                   !.st.lane_slot[x.lane] = 0,
                   !.payload = Put(Put(x.payload, "is_page_turn_marker", TRUE),
                                   "board_page", Min(x.st.page + 1, MaxBoardPage))]
    ELSE [x EXCEPT !.payload = Put(x.payload, "board_page", x.st.page)]

\* lines 1178-1188
PlanPage(x) ==
    IF Has(x.payload, "board_page")
    THEN [x EXCEPT !.st.page = Clamp(x.payload["board_page"], 0, MaxBoardPage)]
    ELSE IF WouldOverflow(x.st.lane_cursor[x.lane], x.reserve_height, x.lane)
    THEN [x EXCEPT !.st.page = Min(x.st.page + 1, MaxBoardPage),
                   !.st.lane_cursor = [l \in AllowedLanes |-> LaneCursorStart],
                   !.st.lane_slot = [l \in AllowedLanes |-> 0],
                   !.payload = Put(Put(x.payload, "is_page_turn_marker", TRUE),
                                   "board_page", Min(x.st.page + 1, MaxBoardPage))]
    ELSE [x EXCEPT !.payload = Put(x.payload, "board_page", x.st.page)]

\* PlaceInLane without line 1193: the layout is left unlocked.
PlaceInLaneUnlocked(x) ==
    [x EXCEPT
       !.payload = Put(Put(SetDefault(x.payload, "slot_index", x.st.lane_slot[x.lane]),
                           "reserve_height", x.reserve_height),
                       "render_order", x.st.render_order),
       !.st.render_order = x.st.render_order + 1,
       !.st.lane_slot[x.lane] = x.st.lane_slot[x.lane] + 1,
       !.st.lane_cursor[x.lane] = x.st.lane_cursor[x.lane] + x.reserve_height + LaneGap]

\* PlaceInLane that leaves a render_order of the model in place.
PlaceInLaneKeepsOrder(x) ==
    [x EXCEPT
       !.payload = Put(SetDefault(Put(SetDefault(x.payload, "slot_index",
                                                 x.st.lane_slot[x.lane]),
                                      "reserve_height", x.reserve_height),
                                  "render_order", x.st.render_order),
                       "layout_locked", TRUE),
       !.st.render_order = x.st.render_order + 1,
       !.st.lane_slot[x.lane] = x.st.lane_slot[x.lane] + 1,
       !.st.lane_cursor[x.lane] = x.st.lane_cursor[x.lane] + x.reserve_height + LaneGap]

\* lines 1190-1196
PlaceInLane(x) ==
    [x EXCEPT
       !.payload = Put(Put(Put(SetDefault(x.payload, "slot_index", x.st.lane_slot[x.lane]),
                               "reserve_height", x.reserve_height),
                           "render_order", x.st.render_order),
                       "layout_locked", TRUE),
       !.st.render_order = x.st.render_order + 1,
       !.st.lane_slot[x.lane] = x.st.lane_slot[x.lane] + 1,
       !.st.lane_cursor[x.lane] = x.st.lane_cursor[x.lane] + x.reserve_height + LaneGap]

\* One iteration of the loop over events: the layout state after the event
\* and the payload the event is left with.
PlanEvent(st, event) ==
    IF event.type = "clear_section"
    THEN [st |-> st, payload |-> SetDefault(event.payload, "board_page", st.page)]
    ELSE IF ~IsVisualEvent(event.type) THEN [st |-> st, payload |-> event.payload]
    ELSE PlaceInLane(PlanPage(PlanChain(
             PlanStart(st, event.type,
                       NormalizePayloadSemantics(event.payload, event.type)))))

PlanStore(acc, i, x) ==
    [st |-> x.st, events |-> [acc.events EXCEPT ![i].payload = x.payload]]

RECURSIVE PlanFrom(_, _)
PlanFrom(acc, i) ==
    IF i > Len(acc.events) THEN acc.events
    ELSE PlanFrom(PlanStore(acc, i, PlanEvent(acc.st, acc.events[i])), i + 1)

ApplyPreplannedBoardMetadata(evs) == PlanFrom([st |-> LayoutStart, events |-> evs], 1)

(***************************************************************************)
(* _repair_step_events                                                     *)
(***************************************************************************)
\* InsertAt as the assignment seq[at] = e: the event at that place is lost.
InsertAtOverwriting(seq, at, e) ==
    SubSeq(seq, 1, at) \o <<e>> \o SubSeq(seq, at + 2, Len(seq))

\* list.insert(at, e), at counted from 0
InsertAt(seq, at, e) ==
    SubSeq(seq, 1, at) \o <<e>> \o SubSeq(seq, at + 1, Len(seq))

CountType(evs, types) == Cardinality({j \in 1..Len(evs) : evs[j].type \in types})

\* 1 if repaired and repaired[0].get("type") == "step_marker" else 0
FirstContentIndex(repaired) ==
    IF Len(repaired) > 0 /\ repaired[1].type = "step_marker" THEN 1 ELSE 0

\* lines 1213-1223
EnsureNarrate(repaired, step_number, step_title, u) ==
    IF CountType(repaired, {"narrate"}) > 0 THEN repaired
    ELSE InsertAt(repaired, FirstContentIndex(repaired),
                  Event(GenerateEventId(step_number, 900, u), "narrate", 1800,
                        [text |-> WorkThroughText(step_title),
                         step_number |-> step_number]))

\* EnsureLeadingNarrate without its insertion.
NoLeadingNarrate(repaired, step_number, step_title, u) == repaired

\* lines 1225-1236
EnsureLeadingNarrate(repaired, step_number, step_title, u) ==
    LET first == FirstContentIndex(repaired)
    IN  IF first < Len(repaired) /\ repaired[first + 1].type # "narrate"
        THEN InsertAt(repaired, first,
                      Event(GenerateEventId(step_number, 905, u), "narrate", 1700,
                            [text |-> SetUpText(step_title), step_number |-> step_number,
                             teaching_phase |-> "setup"]))
        ELSE repaired

MinVisualEvents == 2

\* lines 1238-1252
EnsureVisuals(repaired, step_number, u) ==
    IF CountType(repaired, VisualTypes) < MinVisualEvents
    THEN Append(repaired,
                Event(GenerateEventId(step_number, 910, u), "write_text", 1100,
                      [text |-> "Set up the next transformation.",
                       step_number |-> step_number, zone |-> "main", anchor |-> "work",
                       intent |-> "derive"]))
    ELSE repaired

\* lines 1254-1270
EnsureAnnotation(repaired, step_number, u) ==
    IF CountType(repaired, {"annotate"}) > 0 \/ LastVisualId(repaired) = {} THEN repaired
    ELSE Append(repaired,
                Event(GenerateEventId(step_number, 920, u), "annotate", 600,
                      [annotation_type |-> "highlight",
                       target_id |-> One(LastVisualId(repaired)),
                       step_number |-> step_number, intent |-> "emphasize"]))

HasCheckpointNarrate(repaired) ==
    \E j \in 1..Len(repaired) :
        /\ repaired[j].type = "narrate"
        /\ HasIn(repaired[j].payload, "teaching_phase", {"checkpoint"})

\* lines 1272-1293
EnsureCheckpoint(repaired, step_number, u) ==
    IF HasCheckpointNarrate(repaired) THEN repaired
    ELSE LET ann == {j \in 1..Len(repaired) : repaired[j].type = "annotate"}
             insert_at == IF ann = {} THEN Len(repaired)
                          ELSE CHOOSE j \in ann : \A k \in ann : j <= k
         IN  InsertAt(repaired, insert_at,
                      Event(GenerateEventId(step_number, 930, u), "narrate", 1500,
                            [text |-> "Notice this transformation and why it keeps the equation consistent.",
                             step_number |-> step_number,
                             teaching_phase |-> "checkpoint"]))

\* lines 1295-1302
EnsurePause(repaired, step_number, u) ==
    IF Len(repaired) = 0 \/ repaired[Len(repaired)].type # "pause"
    THEN Append(repaired,
                Event(GenerateEventId(step_number, 999, u), "pause", 900,
                      [step_number |-> step_number]))
    ELSE repaired

\* InferNarratePhase that trusts the keywords over the phase the event has.
InferNarratePhaseAlways(payload) ==
    LET kw == TextInfo(TextOf(payload)).kw
    IN  Put(payload, "teaching_phase",
            IF kw \cap {"final", "answer"} # {} THEN "result"
            ELSE IF kw \cap {"notice", "check"} # {} THEN "checkpoint"
            ELSE IF kw \cap {"first", "given"} # {} THEN "setup"
            ELSE "derive")

\* lines 1311-1320
InferNarratePhase(payload) ==
    IF HasIn(payload, "teaching_phase", AllowedTeachingPhases) THEN payload
    ELSE LET kw == TextInfo(TextOf(payload)).kw
         IN  Put(payload, "teaching_phase",
                 IF kw \cap {"final", "answer"} # {} THEN "result"
                 ELSE IF kw \cap {"notice", "check"} # {} THEN "checkpoint"
                 ELSE IF kw \cap {"first", "given"} # {} THEN "setup"
                 ELSE "derive")

\* lines 1305-1321, for one event
NormalizeRepairedEvent(event) ==
    LET p1 == IF event.type \in VisualTypes
              THEN NormalizePayloadSemantics(event.payload, event.type)
              ELSE event.payload
        p2 == IF event.type = "narrate" THEN InferNarratePhase(p1) ELSE p1
    IN  [event EXCEPT !.payload = ClampPayloadCoordinates(p2)]

NormalizeRepaired(repaired) ==
    [j \in 1..Len(repaired) |-> NormalizeRepairedEvent(repaired[j])]

\* lines 1213-1321: the list handed to _apply_preplanned_board_metadata
RepairBeforePlanning(evs, step_number, step_title, u) ==
    NormalizeRepaired(
        EnsurePause(
            EnsureCheckpoint(
                EnsureAnnotation(
                    EnsureVisuals(
                        EnsureLeadingNarrate(
                            EnsureNarrate(evs, step_number, step_title, u),
                            step_number, step_title, u),
                        step_number, u),
                    step_number, u),
                step_number, u),
            step_number, u))

RepairStepEvents(evs, step_number, step_title, u) ==
    ApplyPreplannedBoardMetadata(RepairBeforePlanning(evs, step_number, step_title, u))

(***************************************************************************)
(* _generate_events_from_content                                           *)
(***************************************************************************)
\* GenerateEventsFromContent that skips the content and emits the math blocks
\* last to first.
GenerateEventsBlocksOnly(step, u) ==
    LET n == step.step_number
        k == Len(step.math_blocks)
    IN  <<StepMarker(n, step.title, u),
          Event(GenerateEventId(n, 1, u), "narrate", 1500,
                [text |-> StepTitleText(n, step.title), step_number |-> n])>>
        \o [j \in 1..k |->
              Event(GenerateEventId(n, 3 + (j - 1), u), "write_equation", 1200,
                    [latex |-> LatexOf(step.math_blocks[k + 1 - j]), step_number |-> n,
                     zone |-> "main", anchor |-> "work", lane |-> "derivation",
                     align |-> "left"])]
        \o <<Event(GenerateEventId(n, 99, u), "pause", 1200, [step_number |-> n])>>

GenerateEventsFromContent(step, u) ==
    LET n == step.step_number
        title_text == StepTitleText(n, step.title)
        head == <<StepMarker(n, step.title, u),
                  Event(GenerateEventId(n, 1, u), "narrate",
                        Max(1500, 400 * TextInfo(title_text).words),
                        [text |-> title_text, step_number |-> n, zone |-> "given",
                         anchor |-> "given", intent |-> "introduce"])>>
        body == IF step.content # ""
                THEN <<Event(GenerateEventId(n, 2, u), "write_text",
                             Max(800, TextInfo(step.content).len * 20),
                             [text |-> step.content, step_number |-> n, zone |-> "main",
                              anchor |-> "work", lane |-> "derivation", align |-> "left",
                              intent |-> "derive"])>>
                ELSE <<>>
        blocks == [j \in 1..Len(step.math_blocks) |->
                     Event(GenerateEventId(n, 3 + (j - 1), u), "write_equation",
                           Max(1200, LatexInfo(LatexOf(step.math_blocks[j])).len * 50),
                           [latex |-> LatexOf(step.math_blocks[j]),
                            display |-> IF Has(step.math_blocks[j], "display")
                                        THEN step.math_blocks[j]["display"] ELSE TRUE,
                            step_number |-> n, zone |-> "main", anchor |-> "work",
                            lane |-> "derivation", align |-> "left", intent |-> "derive",
                            transform_chain_id |-> FallbackChainId(n)])]
    IN  head \o body \o blocks
        \o <<Event(GenerateEventId(n, 99, u), "pause", 1200, [step_number |-> n])>>

(***************************************************************************)
(* _mark_chat_events_temporary                                             *)
(***************************************************************************)
\* f"chat_{uuid.uuid4().hex[:8]}" and the ids built on it
ChatGroupId(u) == <<"chat_{}", "", u, 0, 0>>

ChatClearId(u, cleanup_index) == <<"chat_{}_clear_{}", "", u, cleanup_index, 0>>

ChatPauseId(u) == <<"chat_{}_pause", "", u, 0, 0>>

ChatCountedTypes == VisualTypes \cup {"annotate"}

\* ChatKeeps with inclusive caps: one event too many of each kind is kept.
ChatKeepsInclusive(event_type, narrate_count, visual_count) ==
    IF event_type = "step_marker" THEN FALSE
    ELSE IF event_type = "narrate" THEN narrate_count <= ChatNarrateCap
    ELSE IF event_type \in ChatCountedTypes THEN visual_count <= ChatVisualCap
    ELSE event_type # "pause"

\* ChatKeeps without the branch that drops the pauses of the input.
ChatKeepsPauses(event_type, narrate_count, visual_count) ==
    IF event_type = "step_marker" THEN FALSE
    ELSE IF event_type = "narrate" THEN narrate_count < ChatNarrateCap
    ELSE IF event_type \in ChatCountedTypes THEN visual_count < ChatVisualCap
    ELSE TRUE

\* lines 1336-1348: whether the loop keeps the event, given the counts so far
ChatKeeps(event_type, narrate_count, visual_count) ==
    IF event_type = "step_marker" THEN FALSE
    ELSE IF event_type = "narrate" THEN narrate_count < ChatNarrateCap
    ELSE IF event_type \in ChatCountedTypes THEN visual_count < ChatVisualCap
    ELSE event_type # "pause"

\* lines 1359-1362
ChatReserve(event_type, payload) == WithDefaultReserve(event_type, payload, payload)

\* ChatPayload without lines 1354-1356: the placement of the model is kept.
ChatPayloadKeepsPlacement(event, group_id) ==
    IF event.type \in VisualTypes
    THEN ChatReserve(event.type,
             NormalizePayloadSemantics(
                 SetDefault(Put(Put(event.payload, "temporary", TRUE),
                                "group_id", group_id),
                            "intent", "side_note"),
                 event.type))
    ELSE Put(Put(event.payload, "temporary", TRUE), "group_id", group_id)

\* lines 1350-1362: the payload of a kept event
ChatPayload(event, group_id) ==
    IF event.type \in VisualTypes
    THEN ChatReserve(event.type,
             NormalizePayloadSemantics(
                 SetDefault(
                     Put(Put(Put(Put(Put(event.payload, "temporary", TRUE),
                                     "group_id", group_id),
                                 "lane", "scratch"),
                             "anchor", "scratch"),
                         "zone", "scratch"),
                     "intent", "side_note"),
                 event.type))
    ELSE Put(Put(event.payload, "temporary", TRUE), "group_id", group_id)

\* One iteration of the loop over events; acc holds repaired, visual_ids,
\* narrate_count and visual_count.
ChatStep(acc, event, group_id) ==
    IF ~ChatKeeps(event.type, acc.narrate_count, acc.visual_count) THEN acc
    ELSE [repaired |-> Append(acc.repaired,
                              Event(event.id, event.type, event.duration,
                                    ChatPayload(event, group_id))),
          visual_ids |-> IF event.type \in VisualTypes
                         THEN Append(acc.visual_ids, event.id) ELSE acc.visual_ids,
          narrate_count |-> acc.narrate_count + (IF event.type = "narrate" THEN 1 ELSE 0),
          visual_count |-> acc.visual_count
                           + (IF event.type \in ChatCountedTypes THEN 1 ELSE 0)]

RECURSIVE ChatFrom(_, _, _, _)
ChatFrom(evs, i, acc, group_id) ==
    IF i > Len(evs) THEN acc
    ELSE ChatFrom(evs, i + 1, ChatStep(acc, evs[i], group_id), group_id)

\* ChatCleanup that forgets the last visual it recorded.
ChatCleanupButLast(visual_ids, u) ==
    [k \in 1..(Len(visual_ids) - 1) |->
        Event(ChatClearId(u, k), "clear_section", 220,
              [clear_target |-> "id", clear_id |-> visual_ids[k], temporary |-> TRUE,
               group_id |-> ChatGroupId(u)])]

\* lines 1373-1387
ChatCleanup(visual_ids, u) ==
    [k \in 1..Len(visual_ids) |->
        Event(ChatClearId(u, k), "clear_section", 220,
              [clear_target |-> "id", clear_id |-> visual_ids[k], temporary |-> TRUE,
               group_id |-> ChatGroupId(u)])]

\* lines 1389-1398
ChatClosingPause(repaired, u) ==
    IF Len(repaired) > 0 /\ repaired[Len(repaired)].type # "pause"
    THEN <<Event(ChatPauseId(u), "pause", 450,
                 [temporary |-> TRUE, group_id |-> ChatGroupId(u)])>>
    ELSE <<>>

ChatClose(repaired, u) == repaired \o ChatClosingPause(repaired, u)

ChatFinish(acc, u) == ChatClose(acc.repaired \o ChatCleanup(acc.visual_ids, u), u)

MarkChatEventsTemporary(evs, u) ==
    ChatFinish(ChatFrom(evs, 1,
                        [repaired |-> <<>>, visual_ids |-> <<>>, narrate_count |-> 0,
                         visual_count |-> 0],
                        ChatGroupId(u)),
               u)

\* _parse_chat_response, lines 1649-1655: step_number = None, id_prefix = "chat"
ProcessChatEvents(raw_events, u) ==
    ProcessEventStream(raw_events,
                       [has_step |-> FALSE, step_number |-> 0, id_prefix |-> "chat",
                        offset |-> 0, u |-> u],
                       "", FALSE)

(***************************************************************************)
(* chat_service.py: the events attached to a chat response                 *)
(***************************************************************************)
\* text.strip(): of the texts of this model only the blank one has outer
\* whitespace.
Strip(text) == IF text = "   " THEN "" ELSE text

\* _estimate_text_duration_ms, on the length of the stripped text
EstimateTextDurationMs(len, minimum, maximum) ==
    IF len = 0 THEN minimum ELSE Max(minimum, Min(maximum, len * 22))

\* f"chat-{uuid.uuid4().hex[:10]}": one draw per event, k tells them apart
ChatEventId(u, k) == <<"chat-{}", "", u, k, 0>>

\* _event
ChatSideEvent(u, k, event_type, duration, payload) ==
    Event(ChatEventId(u, k), event_type, Max(duration, 200), payload)

\* response.get("narration", response.get("message", "")): the narration of
\* the parsed response (ai_service.py 1642-1643, chat_service.py 213)
ReplyNarration(response) ==
    IF response.narration = {} THEN response.message ELSE One(response.narration)

\* f"Step {related_step}"
StepLabel(related_step) == CASE related_step = 1 -> "Step 1"

\* _build_chat_events.  response holds message, narration (optional),
\* math_blocks, related_step (optional) and audio_duration in ms.
BuildChatEvents(response, step_title, u) ==
    LET narration == IF Strip(ReplyNarration(response)) # ""
                     THEN Strip(ReplyNarration(response)) ELSE Strip(response.message)
        message_text == Strip(response.message)
        marker == IF response.related_step = {} THEN <<>>
                  ELSE <<ChatSideEvent(u, 1, "step_marker", 350,
                             [step_number |-> One(response.related_step),
                              step_title |-> IF step_title = {}
                                             THEN StepLabel(One(response.related_step))
                                             ELSE One(step_title),
                              position |-> "side"])>>
        spoken == IF narration = "" THEN <<>>
                  ELSE <<ChatSideEvent(u, 2, "narrate",
                             IF response.audio_duration > 0 THEN response.audio_duration
                             ELSE EstimateTextDurationMs(TextInfo(narration).len, 1200, 7000),
                             [text |-> narration, position |-> "side"])>>
        written == IF message_text = "" THEN <<>>
                   ELSE <<ChatSideEvent(u, 3, "write_text",
                              EstimateTextDurationMs(TextInfo(message_text).len, 900, 4200),
                              [text |-> message_text, position |-> "side"])>>
        blocks == SelectSeq(response.math_blocks, LAMBDA b : LatexOf(b) # "")
        equations == [j \in 1..Len(blocks) |->
                        ChatSideEvent(u, 3 + j, "write_equation",
                            EstimateTextDurationMs(LatexInfo(LatexOf(blocks[j])).len,
                                                   1300, 3200),
                            [latex |-> LatexOf(blocks[j]),
                             display |-> IF Has(blocks[j], "display")
                                         THEN blocks[j]["display"] ELSE TRUE,
                             position |-> "side"])]
    IN  IF marker \o spoken \o written \o equations = <<>> THEN <<>>
        ELSE marker \o spoken \o written \o equations
             \o <<ChatSideEvent(u, 99, "pause", 650, [position |-> "side"])>>

(***************************************************************************)
(* Inputs                                                                  *)
(***************************************************************************)
MaxLen == 3

MaxPlan == 3

MaxBlocks == 2

MaxChat == 4

MaxChatLong == 7

MaxPhase == 2

MaxBare == 3

MaxPage == 3

MaxOrder == 3

MaxSteps == 2

SeqsUpTo(S, n) == UNION {[1..k -> S] : k \in 0..n}

Titles == {"Solve", "Check the answer"}

\* Raw event records of mixed types: the structure of a step.
StructRaw ==
    {[type |-> "narrate", text |-> "Subtract 3 from both sides."],
     [type |-> "narrate", text |-> "Notice the sign flips."],
     [type |-> "write_equation", latex |-> "x+1=2"],
     [type |-> "write_equation", latex |-> "x+1=2", transform_chain_id |-> Lit("a")],
     [type |-> "write_equation", latex |-> "x^2", transformChainId |-> Lit("b")],
     [type |-> "write_text", text |-> "Given:", lane |-> "given"],
     [type |-> "draw_line"],
     [type |-> "annotate", target |-> Lit("previous")],
     [type |-> "clear_section", clear_zone |-> "main"],
     [type |-> "pause"],
     [type |-> "sparkle"]}

\* Raw visual events with every subset of zone, anchor and lane, the values
\* free to disagree.
PlaceRaw ==
    {Entry("zone", z) @@ Entry("anchor", a) @@ Entry("lane", l) @@ r :
        z \in {{}} \cup {{v} : v \in AllowedZones},
        a \in {{}} \cup {{v} : v \in AllowedAnchors},
        l \in {{}} \cup {{v} : v \in AllowedLanes},
        r \in {[type |-> "write_text", text |-> "Combine like terms."],
               [type |-> "draw_line"]}}

\* Raw equations in the final lane that name, or leave out, an intent, a
\* teaching phase, a scene template, a slot role and a scene id other than the
\* ones the final lane suggests.
SemanticRaw ==
    {Entry("intent", i) @@ Entry("teaching_phase", p) @@ Entry("scene_template", t)
     @@ Entry("slot_role", s) @@ Entry("scene_id", c)
     @@ [type |-> "write_equation", latex |-> "x+1=2", lane |-> "final"] :
        i \in {{}, {"emphasize"}}, p \in {{}, {"setup"}}, t \in {{}, {"given_intro"}},
        s \in {{}, {"heading"}}, c \in {{}, {Lit("intro")}}}

\* Raw events that name a render_order or unlock their layout: two visuals, a
\* narration, and a visual that names neither.
OrderRaw ==
    {[type |-> "write_equation", latex |-> "x+1=2", render_order |-> 5,
      layout_locked |-> FALSE],
     [type |-> "draw_line", renderOrder |-> 0],
     [type |-> "write_text", text |-> "Combine like terms."],
     [type |-> "narrate", text |-> "Subtract 3 from both sides.", render_order |-> 3]}

\* Raw visual events for the paginator: tall events in a wide and in a narrow
\* lane, with and without a page of their own (12 is clamped to 8).
PlanRaw ==
    {Entry("board_page", b) @@
     [type |-> "write_text", text |-> "Combine like terms.", lane |-> l,
      reserve_height |-> h] :
        l \in {"derivation", "final"}, h \in {211000, 240000}, b \in {{}, {12}}}

\* Raw narrations that name their teaching phase: a phase that differs from
\* the one their keywords suggest, a phase under the camel-case key, a phase
\* outside the allowed set, and the phase checkpoint.
PhaseRaw ==
    {[type |-> "narrate", text |-> "Subtract 3 from both sides.",
      teaching_phase |-> "checkpoint"],
     [type |-> "narrate", text |-> "Notice the sign flips.", teaching_phase |-> "result"],
     [type |-> "narrate", text |-> "Subtract 3 from both sides.", teachingPhase |-> "setup"],
     [type |-> "narrate", text |-> "Notice the sign flips.", teaching_phase |-> "intro"],
     [type |-> "narrate", text |-> "Combine like terms."]}

\* Raw records that lack their content or their type, and a record of unknown
\* type.
BareRaw ==
    {[type |-> "write_equation"], [type |-> "write_text"], [type |-> "narrate"],
     [latex |-> "x^2"], [type |-> "sparkle", text |-> "Combine like terms."]}

\* Raw visual events for the paginator's loop: the tall events of PlanRaw,
\* short events in other lanes, an event that names its slot and an event the
\* model itself marked as a page turn.
PageRaw ==
    PlanRaw
    \cup {[type |-> "write_text", text |-> "Given:", lane |-> "given"],
          [type |-> "draw_line", slot_index |-> 5],
          [type |-> "write_equation", latex |-> "x^2", is_page_turn_marker |-> TRUE]}

MathBlocks == {[latex |-> "x^2", display |-> TRUE], [latex |-> "x+1=2"]}

Step(title, raw_events, content, math_blocks) ==
    [step_number |-> 1, title |-> title, events |-> raw_events, content |-> content,
     math_blocks |-> math_blocks]

StepInputs ==
    {Step("Solve", evs, "", <<>>) :
        evs \in SeqsUpTo(StructRaw, MaxLen) \cup SeqsUpTo(PlanRaw, MaxPlan)
                \cup SeqsUpTo(PhaseRaw, MaxPhase) \cup SeqsUpTo(BareRaw, MaxBare)
                \cup SeqsUpTo(OrderRaw, MaxOrder)}
    \cup {Step(t, <<r>>, "", <<>>) : t \in Titles, r \in StructRaw \cup PlaceRaw \cup SemanticRaw}
    \cup {Step(t, <<>>, c, b) :
            t \in Titles, c \in {"", "Use the power rule"},
            b \in SeqsUpTo(MathBlocks, MaxBlocks)}

\* Event lists handed to a function directly, as the tests do: events with
\* ids of the caller and payloads that carry no placement.
DirectKinds == {"step_marker", "narrate", "write_equation", "annotate", "pause"}

DirectEvent(kind, j) ==
    Event(<<"t{}", "", j, 0, 0>>, kind, 800,
          CASE kind = "step_marker" -> [step_number |-> 1, step_title |-> "Solve"]
            [] kind = "narrate" -> [text |-> "Subtract 3 from both sides."]
            [] kind = "write_equation" -> [latex |-> "x+1=2", display |-> TRUE]
            [] kind = "annotate" -> [annotation_type |-> "highlight"]
            [] kind = "pause" -> Empty)

DirectInputs ==
    {[j \in 1..Len(k) |-> DirectEvent(k[j], j)] : k \in SeqsUpTo(DirectKinds, MaxLen)}

\* Raw chat events.
ChatRaw ==
    {[type |-> "narrate", text |-> "Notice the sign flips."],
     [type |-> "write_equation", latex |-> "x+1=2", zone |-> "main",
      group_id |-> Lit("g")],
     [type |-> "draw_line", temporary |-> FALSE],
     [type |-> "annotate", target |-> Lit("previous"), style |-> "box"],
     [type |-> "clear_section", clear_target |-> "zone", clear_zone |-> "scratch"],
     [type |-> "pause"]}

ChatLongRaw ==
    {[type |-> "narrate", text |-> "Notice the sign flips."],
     [type |-> "write_equation", latex |-> "x+1=2"],
     [type |-> "annotate", target |-> Lit("previous")]}

ChatPlaceRaw ==
    {Entry("intent", i) @@ r : i \in {{}, {"derive"}}, r \in PlaceRaw}

\* Raw clear_section records of a chat turn: a zone of the lesson board or
\* the scratch zone, with or without clear_target, and the id of an event of
\* the lesson.
ChatClearRaw ==
    {Entry("clear_target", t) @@ Entry("clear_zone", z) @@ [type |-> "clear_section"] :
        t \in {{}, {"zone"}}, z \in {{"main"}, {"scratch"}, {"final"}}}
    \cup {[type |-> "clear_section", clear_target |-> "id",
           clear_id |-> GenerateEventId(1, 1, 0)]}

ChatInputs ==
    {[events |-> evs] :
        evs \in SeqsUpTo(ChatRaw, MaxChat) \cup SeqsUpTo(ChatLongRaw, MaxChatLong)
                \cup {<<r>> : r \in ChatPlaceRaw}
                \cup {<<[type |-> "write_equation", latex |-> "x+1=2"], r>> :
                         r \in ChatClearRaw}}

\* The textual part of a chat response, the step it relates to and the length
\* of its narration audio.
ChatReplies ==
    {[message |-> m, narration |-> n, math_blocks |-> b, related_step |-> r,
      audio_duration |-> a] :
        m \in {"Notice the sign flips.", "   "},
        n \in {{}, {"Subtract 3 from both sides."}},
        b \in {<<>>, <<[latex |-> "x+1=2"], [display |-> FALSE]>>},
        r \in {{}, {1}},
        a \in {0, 2500}}

(***************************************************************************)
(* The lesson step pipeline: _parse_lesson_response, for one step          *)
(***************************************************************************)
Init ==
    /\ out = <<>>
    /\ out2 = <<>>
    /\ \/ /\ pc = "raw"
          /\ input \in StepInputs
          /\ events = <<>>
       \/ /\ pc = "normalized"
          /\ input = Step("Solve", <<>>, "", <<>>)
          /\ events \in DirectInputs

\* if "events" in step and step["events"]: events = _process_gemini_events(step)
ProcessStep ==
    /\ pc = "raw"
    /\ input.events # <<>>
    /\ events' = ProcessGeminiEvents(input, 0)
    /\ pc' = "normalized"
    /\ UNCHANGED <<input, out, out2>>

\* else: events = _generate_events_from_content(step)
FallbackStep ==
    /\ pc = "raw"
    /\ input.events = <<>>
    /\ events' = GenerateEventsFromContent(input, 0)
    /\ pc' = "normalized"
    /\ UNCHANGED <<input, out, out2>>

\* events = _repair_step_events(events, int(step["step_number"]), str(step["title"]))
Repair ==
    /\ pc = "normalized"
    /\ out' = RepairStepEvents(events, input.step_number, input.title, 1)
    /\ pc' = "repaired"
    /\ UNCHANGED <<input, events, out2>>

\* _repair_step_events applied to a repaired step
RepairAgain ==
    /\ pc = "repaired"
    /\ out2' = RepairStepEvents(out, input.step_number, input.title, 2)
    /\ pc' = "again"
    /\ UNCHANGED <<input, events, out>>

Next == ProcessStep \/ FallbackStep \/ Repair \/ RepairAgain

Spec == Init /\ [][Next]_vars

(***************************************************************************)
(* The loop of _apply_preplanned_board_metadata, one event at a time        *)
(***************************************************************************)
\* The lists the paginator is handed: normalized and repaired steps.
PageInputs ==
    {RepairBeforePlanning(ProcessGeminiEvents(Step("Solve", r, "", <<>>), 0),
                          1, "Solve", 1) : r \in SeqsUpTo(PageRaw, MaxPage)}

\* events holds the layout state and the list as planned so far, out the
\* index of the next event, out2 what events was before the last iteration.
PageInit ==
    /\ pc = "page"
    /\ input \in PageInputs
    /\ events = [st |-> LayoutStart, events |-> input]
    /\ out = 1
    /\ out2 = <<>>

\* for event in events: lines 1153-1196
PageStep ==
    /\ pc = "page"
    /\ out <= Len(input)
    /\ events' = PlanStore(events, out, PlanEvent(events.st, events.events[out]))
    /\ out' = out + 1
    /\ out2' = events
    /\ UNCHANGED <<input, pc>>

PageDone ==
    /\ pc = "page"
    /\ out > Len(input)
    /\ pc' = "paged"
    /\ UNCHANGED <<input, events, out, out2>>

PageNext == PageStep \/ PageDone

PageSpec == PageInit /\ [][PageNext]_vars

(***************************************************************************)
(* lesson_service.py: narration audio for the steps of a finalized lesson   *)
(***************************************************************************)
\* One step of _parse_lesson_response's loop, lines 1455-1476; of the step
\* it builds, the fields that the audio stage neither reads nor writes
\* (content, narration, math_blocks, hint) are left out.
FinalizeStep(step) ==
    [step_number |-> step.step_number,
     title |-> step.title,
     events |-> RepairStepEvents(IF step.events # <<>>
                                 THEN ProcessGeminiEvents(step, 0)
                                 ELSE GenerateEventsFromContent(step, 0),
                                 step.step_number, step.title, 1)]

\* The raw events of the steps of a lesson: a step whose one narration is the
\* model's, a step whose narration of the model has no text, and a step
\* without a narration of the model.
LessonRaw ==
    {<<[type |-> "narrate", text |-> "Subtract 3 from both sides.",
        teaching_phase |-> "checkpoint"]>>,
     <<[type |-> "narrate"], [type |-> "write_text", text |-> "Given:", lane |-> "given"]>>,
     <<[type |-> "write_equation", latex |-> "x+1=2"]>>}

\* Lessons of up to MaxSteps steps, numbered from 1.
LessonInputs ==
    {[n \in 1..k |-> FinalizeStep([Step("Solve", raw[n], "", <<>>) EXCEPT !.step_number = n])] :
        k \in 1..MaxSteps, raw \in [1..MaxSteps -> LessonRaw]}

\* What awaiting generate_narration_audio brings: an exception, no audio with
\* an error code, a url with a duration of 0, a url with a duration in seconds.
AudioResults ==
    {[raised |-> TRUE, audio_url |-> {}, duration |-> 0, error_code |-> {}],
     [raised |-> FALSE, audio_url |-> {}, duration |-> 0, error_code |-> {"rate_limited"}],
     [raised |-> FALSE, audio_url |-> {"/audio/a.mp3"}, duration |-> 0, error_code |-> {}],
     [raised |-> FALSE, audio_url |-> {"/audio/a.mp3"}, duration |-> 3, error_code |-> {}]}

\* lines 59-68: the narrate events with a text, as (step_index, event_index)
NarrateRefs(all_steps) ==
    UNION {{<<s, j>> : j \in {k \in 1..Len(all_steps[s].events) :
                                  /\ all_steps[s].events[k].type = "narrate"
                                  /\ TextOf(all_steps[s].events[k].payload) # ""}} :
              s \in 1..Len(all_steps)}

\* lines 80-94: whether the result carries audio
HasAudio(result) == ~result.raised /\ result.audio_url # {} /\ result.duration > 0

\* AttachAudio that takes the duration of every result that did not raise.
AttachAudioUnchecked(event, result) ==
    IF result.raised THEN event
    ELSE [event EXCEPT
            !.duration = result.duration * 1000,
            !.payload = Put(Put(event.payload, "audio_url", result.audio_url),
                            "audio_duration", result.duration)]

\* lines 77-101: one iteration of the loop that attaches the audio
AttachAudio(event, result) ==
    IF HasAudio(result)
    THEN [event EXCEPT
            !.duration = result.duration * 1000,
            !.payload = Put(Put(event.payload, "audio_url", One(result.audio_url)),
                            "audio_duration", result.duration)]
    ELSE event

AttachAll(all_steps, results) ==
    [s \in 1..Len(all_steps) |->
        [all_steps[s] EXCEPT
           !.events = [j \in 1..Len(all_steps[s].events) |->
                          IF <<s, j>> \in DOMAIN results
                          THEN AttachAudio(all_steps[s].events[j], results[<<s, j>>])
                          ELSE all_steps[s].events[j]]]]

\* lines 117-125: the audio of the step's first narrate that has one, as a set
FirstNarrateAudio(evs) ==
    LET idx == {j \in 1..Len(evs) :
                   evs[j].type = "narrate" /\ Has(evs[j].payload, "audio_url")}
    IN  IF idx = {} THEN {}
        ELSE {evs[CHOOSE j \in idx : \A k \in idx : j <= k].payload["audio_url"]}

RECURSIVE TotalAudioDuration(_, _)
TotalAudioDuration(evs, j) ==
    IF j > Len(evs) THEN 0
    ELSE (IF evs[j].type = "narrate" /\ Has(evs[j].payload, "audio_duration")
          THEN evs[j].payload["audio_duration"] ELSE 0)
         + TotalAudioDuration(evs, j + 1)

\* lines 115-128
SetStepAudio(step) ==
    [audio_url |-> FirstNarrateAudio(step.events),
     audio_duration |-> TotalAudioDuration(step.events, 1)] @@ step

\* lines 130-141
VoiceStatus(results) ==
    IF \E ref \in DOMAIN results : HasAudio(results[ref]) THEN "ok"
    ELSE IF \E ref \in DOMAIN results :
               ~results[ref].raised /\ results[ref].error_code = {"missing_tts_permission"}
    THEN "missing_tts_permission"
    ELSE IF \E ref \in DOMAIN results :
               ~results[ref].raised /\ results[ref].error_code = {"unauthorized"}
    THEN "unauthorized"
    ELSE IF \E ref \in DOMAIN results :
               ~results[ref].raised /\ results[ref].error_code = {"rate_limited"}
    THEN "rate_limited"
    ELSE "unknown"

\* _enrich_steps_with_audio, given what the synthesis of each narration brings
EnrichStepsWithAudio(all_steps, results) ==
    [steps |-> [s \in 1..Len(all_steps) |-> SetStepAudio(AttachAll(all_steps, results)[s])],
     voice_status |-> VoiceStatus(results)]

\* input holds the steps, events what the syntheses bring, out the steps with
\* audio and out2 the voice status.
EnrichInit ==
    /\ pc = "collect"
    /\ input \in LessonInputs
    /\ events = <<>>
    /\ out = <<>>
    /\ out2 = ""

\* audio_results = await asyncio.gather(*all_narrate_tasks, return_exceptions=True)
GatherAudio ==
    /\ pc = "collect"
    /\ events' \in [NarrateRefs(input) -> AudioResults]
    /\ pc' = "gathered"
    /\ UNCHANGED <<input, out, out2>>

\* lines 74-143
EnrichAttach ==
    /\ pc = "gathered"
    /\ out' = EnrichStepsWithAudio(input, events).steps
    /\ out2' = EnrichStepsWithAudio(input, events).voice_status
    /\ pc' = "enriched"
    /\ UNCHANGED <<input, events>>

EnrichNext == GatherAudio \/ EnrichAttach

EnrichSpec == EnrichInit /\ [][EnrichNext]_vars

(***************************************************************************)
(* Two invocations of the pipeline side by side, one loop iteration at a    *)
(* time                                                                     *)
(***************************************************************************)
\* The raw events of the steps and of the chat turn that run side by side:
\* a step that turns the page, a step that closes and reopens a derivation
\* chain, a step with a page of its own, and a chat turn.
TallRaw(lane, h) ==
    [type |-> "write_text", text |-> "Combine like terms.", lane |-> lane,
     reserve_height |-> h]

ParStepRaw ==
    {<<TallRaw("derivation", 240000), TallRaw("derivation", 240000)>>,
     <<[type |-> "write_equation", latex |-> "x+1=2", transform_chain_id |-> Lit("a")],
       [type |-> "draw_line"],
       [type |-> "write_equation", latex |-> "x^2"]>>,
     <<[type |-> "write_text", text |-> "Given:", lane |-> "given"],
       [board_page |-> 12] @@ TallRaw("final", 211000)>>}

ParChatRaw ==
    {<<[type |-> "narrate", text |-> "Notice the sign flips."],
       [type |-> "write_equation", latex |-> "x+1=2"],
       [type |-> "draw_line"]>>}

ParTask(kind, n, raw) ==
    [kind |-> kind, step |-> [Step("Solve", raw, "", <<>>) EXCEPT !.step_number = n]]

\* The arguments _process_event_stream is called with: lines 1124-1133 for a
\* step, lines 1649-1655 for a chat turn.
ParCtx(task) ==
    IF task.kind = "step"
    THEN [has_step |-> TRUE, step_number |-> task.step.step_number, id_prefix |-> "s{}",
          offset |-> 1, u |-> 0]
    ELSE [has_step |-> FALSE, step_number |-> 0, id_prefix |-> "chat", offset |-> 0, u |-> 0]

\* lines 1011-1025: processed at the start of the loop
ParProcessedStart(task) ==
    IF task.kind = "step"
    THEN <<StepMarker(task.step.step_number, task.step.title, 0)>>
    ELSE <<>>

\* The local variables of a call frame that outlive one loop iteration:
\* derivation_chain_id of _process_event_stream (line 1013) and page,
\* derivation_chain_id, render_order, lane_cursor and lane_slot of
\* _apply_preplanned_board_metadata (lines 1137-1151).
LocalsStart == [chain |-> {}, st |-> LayoutStart]

\* StoreLocals for variables of the module instead of the call frame: what
\* one invocation assigns, every invocation reads.
StoreLocalsShared(locals, w, value) == [k \in DOMAIN locals |-> value]

\* An assignment to the local variables of invocation w.
StoreLocals(locals, w, value) == [locals EXCEPT ![w] = value]

\* input holds the two tasks, pc the position of each invocation, events
\* the list each invocation works on with its loop index (and whether its
\* paginator ran while the other paginator was between two events), out2 the
\* local variables of each, out the result of each.
ParInit ==
    /\ \E raw1 \in ParStepRaw :
          \/ \E raw2 \in ParStepRaw :
                input = <<ParTask("step", 1, raw1), ParTask("step", 2, raw2)>>
          \/ \E raw2 \in ParChatRaw :
                input = <<ParTask("step", 1, raw1), ParTask("chat", 0, raw2)>>
    /\ pc = <<"stream", "stream">>
    /\ events = [w \in 1..2 |-> [list |-> ParProcessedStart(input[w]), i |-> 0,
                                  overlapped |-> FALSE]]
    /\ out2 = [w \in 1..2 |-> LocalsStart]
    /\ out = <<<<>>, <<>>>>

\* One iteration of the loop of _process_event_stream, lines 1027-1116
ParStreamStep(w) ==
    /\ pc[w] = "stream"
    /\ events[w].i < Len(input[w].step.events)
    /\ LET r == ProcessRawEvent(input[w].step.events[events[w].i + 1], events[w].i,
                                [processed |-> events[w].list, chain |-> out2[w].chain],
                                ParCtx(input[w]))
       IN  /\ events' = [events EXCEPT ![w].list = r.processed, ![w].i = @ + 1]
           /\ out2' = StoreLocals(out2, w, [out2[w] EXCEPT !.chain = r.chain])
    /\ UNCHANGED <<input, pc, out>>

\* The loop is over: a step goes on to its repair, a chat turn to the adapter.
ParStreamEnd(w) ==
    /\ pc[w] = "stream"
    /\ events[w].i = Len(input[w].step.events)
    /\ pc' = [pc EXCEPT ![w] = IF input[w].kind = "step" THEN "repair" ELSE "mark"]
    /\ UNCHANGED <<input, events, out, out2>>

\* _repair_step_events up to its call of _apply_preplanned_board_metadata,
\* and that call's first lines, 1137-1151
ParRepair(w) ==
    /\ pc[w] = "repair"
    /\ events' = [events EXCEPT
                     ![w].list = RepairBeforePlanning(events[w].list,
                                                      input[w].step.step_number,
                                                      input[w].step.title, 1),
                     ![w].i = 1]
    /\ out2' = StoreLocals(out2, w, LocalsStart)
    /\ pc' = [pc EXCEPT ![w] = "page"]
    /\ UNCHANGED <<input, out>>

\* One iteration of the loop of _apply_preplanned_board_metadata
ParPageStep(w) ==
    /\ pc[w] = "page"
    /\ events[w].i <= Len(events[w].list)
    /\ LET x == PlanEvent(out2[w].st, events[w].list[events[w].i])
       IN  /\ events' = [events EXCEPT
                            ![w].list[events[w].i].payload = x.payload,
                            ![w].i = @ + 1,
                            ![w].overlapped =
                                @ \/ (pc[3 - w] = "page" /\ events[3 - w].i > 1)]
           /\ out2' = StoreLocals(out2, w, [out2[w] EXCEPT !.st = x.st])
    /\ UNCHANGED <<input, pc, out>>

ParPageEnd(w) ==
    /\ pc[w] = "page"
    /\ events[w].i > Len(events[w].list)
    /\ out' = [out EXCEPT ![w] = events[w].list]
    /\ pc' = [pc EXCEPT ![w] = "done"]
    /\ UNCHANGED <<input, events, out2>>

\* data["events"] = _mark_chat_events_temporary(parsed_events)
ParChatMark(w) ==
    /\ pc[w] = "mark"
    /\ out' = [out EXCEPT ![w] = MarkChatEventsTemporary(events[w].list, 1)]
    /\ pc' = [pc EXCEPT ![w] = "done"]
    /\ UNCHANGED <<input, events, out2>>

ParNext ==
    \E w \in 1..2 :
        \/ ParStreamStep(w)
        \/ ParStreamEnd(w)
        \/ ParRepair(w)
        \/ ParPageStep(w)
        \/ ParPageEnd(w)
        \/ ParChatMark(w)

ParSpec == ParInit /\ [][ParNext]_vars

(***************************************************************************)
(* lesson_service.py: who starts the narration audio of a session.  The     *)
(* coroutines run on one event loop, so each action is the code between two *)
(* points where a coroutine waits.                                          *)
(***************************************************************************)
\* The steps of a session: none yet, steps without audio, steps whose
\* narrations carry an audio_url.
StepsValues == {"none", "plain", "voiced"}

\* _steps_have_audio, lines 19-26
StepsHaveAudio(steps) == steps = "voiced"

\* The two requests that stream the lesson of the session, and the
\* create_lesson task each of them may start.
Streams == {"s1", "s2"}

LessonTaskOf(s) == IF s = "s1" THEN "c1" ELSE "c2"

LessonTasks == {LessonTaskOf(s) : s \in Streams}

\* _schedule_background_audio_generation, lines 195-201: whether a task is
\* created
SchedulesTask(session) ==
    /\ session.audio_status \notin {"queued", "in_progress", "complete"}
    /\ session.steps # "none"
    /\ ~StepsHaveAudio(session.steps)

\* lines 195-203: the session after the call
SessionAfterSchedule(session) ==
    IF SchedulesTask(session) THEN [session EXCEPT !.audio_status = "queued"] ELSE session

\* asyncio.create_task(_generate_audio_in_background(session_id)), line 204
TasksAfterSchedule(session, tasks) ==
    IF SchedulesTask(session) THEN [tasks EXCEPT !.queued = @ + 1] ELSE tasks

\* input is the session, pc the position of each stream and create_lesson
\* task, events the steps each stream holds in its local variable, out the
\* number of background audio tasks created but not started and of those
\* that wait for their enrichment; out2 counts the enrichment runs started.
AudioInit ==
    /\ \E steps \in StepsValues : input = [steps |-> steps, audio_status |-> "pending"]
    /\ pc = [p \in Streams \cup LessonTasks |-> IF p \in Streams THEN "start" ELSE "idle"]
    /\ events = [s \in Streams |-> "none"]
    /\ out = [queued |-> 0, running |-> 0]
    /\ out2 = 0

\* stream_lesson_steps, lines 254-264: up to the first yield
StreamOpen(s) ==
    /\ pc[s] = "start"
    /\ events' = [events EXCEPT ![s] = input.steps]
    /\ pc' = [pc EXCEPT ![s] = "connected"]
    /\ UNCHANGED <<input, out, out2>>

\* lines 267-273: without steps the stream starts create_lesson and waits
StreamStartsLesson(s) ==
    /\ pc[s] = "connected"
    /\ events[s] = "none"
    /\ pc' = [pc EXCEPT ![s] = "waiting", ![LessonTaskOf(s)] = "start"]
    /\ UNCHANGED <<input, events, out, out2>>

\* lines 294-300: steps without audio are enriched inline; the enrichment
\* works on a copy of the steps the stream holds
StreamChecksAudio(s, steps) ==
    IF steps # "none" /\ ~StepsHaveAudio(steps)
    THEN /\ input' = [input EXCEPT !.audio_status = "in_progress"]
         /\ pc' = [pc EXCEPT ![s] = "enriching"]
         /\ out2' = out2 + 1
    ELSE /\ pc' = [pc EXCEPT ![s] = "streaming"]
         /\ UNCHANGED <<input, out2>>

\* lines 267, 294: the stream found steps when it opened
StreamHasSteps(s) ==
    /\ pc[s] = "connected"
    /\ events[s] # "none"
    /\ StreamChecksAudio(s, events[s])
    /\ UNCHANGED <<events, out>>

\* lines 286-300: create_lesson is done, the stream reads the session again
StreamResumes(s) ==
    /\ pc[s] = "waiting"
    /\ pc[LessonTaskOf(s)] = "done"
    /\ events' = [events EXCEPT ![s] = input.steps]
    /\ StreamChecksAudio(s, input.steps)
    /\ UNCHANGED out

\* lines 301-309: the inline enrichment returns, with or without audio
StreamEnriched(s) ==
    /\ pc[s] = "enriching"
    /\ \E result \in {"plain", "voiced"} :
          /\ events' = [events EXCEPT ![s] = result]
          /\ input' = [steps |-> result,
                       audio_status |-> IF StepsHaveAudio(result) THEN "complete"
                                        ELSE "failed"]
    /\ pc' = [pc EXCEPT ![s] = "streaming"]
    /\ UNCHANGED <<out, out2>>

\* lines 310-330: the inline enrichment timed out or raised
StreamEnrichFailed(s) ==
    /\ pc[s] = "enriching"
    /\ input' = SessionAfterSchedule([input EXCEPT !.audio_status = "pending"])
    /\ out' = TasksAfterSchedule([input EXCEPT !.audio_status = "pending"], out)
    /\ pc' = [pc EXCEPT ![s] = "streaming"]
    /\ UNCHANGED <<events, out2>>

\* lines 332-345
StreamFinish(s) ==
    /\ pc[s] = "streaming"
    /\ pc' = [pc EXCEPT ![s] = "done"]
    /\ UNCHANGED <<input, events, out, out2>>

\* create_lesson, lines 213-229: the session has steps already
LessonReuses(c) ==
    /\ pc[c] = "start"
    /\ input.steps # "none"
    /\ input' = SessionAfterSchedule(
                    [input EXCEPT !.audio_status = IF StepsHaveAudio(input.steps)
                                                   THEN "complete" ELSE "pending"])
    /\ out' = TasksAfterSchedule(
                  [input EXCEPT !.audio_status = IF StepsHaveAudio(input.steps)
                                                 THEN "complete" ELSE "pending"], out)
    /\ pc' = [pc EXCEPT ![c] = "done"]
    /\ UNCHANGED <<events, out2>>

\* lines 231-235: result = await analyze_problem(...)
LessonAnalyzes(c) ==
    /\ pc[c] = "start"
    /\ input.steps = "none"
    /\ pc' = [pc EXCEPT ![c] = "analyzing"]
    /\ UNCHANGED <<input, events, out, out2>>

\* lines 237-249
LessonStored(c) ==
    /\ pc[c] = "analyzing"
    /\ input' = SessionAfterSchedule([steps |-> "plain", audio_status |-> "pending"])
    /\ out' = TasksAfterSchedule([steps |-> "plain", audio_status |-> "pending"], out)
    /\ pc' = [pc EXCEPT ![c] = "done"]
    /\ UNCHANGED <<events, out2>>

\* _generate_audio_in_background, lines 148-170: a created task starts
BackgroundStarts ==
    /\ out.queued > 0
    /\ IF input.audio_status = "in_progress" \/ input.steps = "none"
       THEN /\ out' = [out EXCEPT !.queued = @ - 1]
            /\ UNCHANGED <<input, out2>>
       ELSE IF StepsHaveAudio(input.steps)
       THEN /\ out' = [out EXCEPT !.queued = @ - 1]
            /\ input' = [input EXCEPT !.audio_status = "complete"]
            /\ UNCHANGED out2
       ELSE /\ out' = [queued |-> out.queued - 1, running |-> out.running + 1]
            /\ input' = [input EXCEPT !.audio_status = "in_progress"]
            /\ out2' = out2 + 1
    /\ UNCHANGED <<pc, events>>

\* lines 170-178: the enrichment of a background task returns
BackgroundEnriched ==
    /\ out.running > 0
    /\ \E result \in {"plain", "voiced"} :
          input' = [steps |-> result, audio_status |-> "complete"]
    /\ out' = [out EXCEPT !.running = @ - 1]
    /\ UNCHANGED <<pc, events, out2>>

\* lines 179-186: it raised
BackgroundFailed ==
    /\ out.running > 0
    /\ input' = [input EXCEPT !.audio_status = "failed"]
    /\ out' = [out EXCEPT !.running = @ - 1]
    /\ UNCHANGED <<pc, events, out2>>

AudioNext ==
    \/ \E s \in Streams :
          \/ StreamOpen(s)
          \/ StreamStartsLesson(s)
          \/ StreamHasSteps(s)
          \/ StreamResumes(s)
          \/ StreamEnriched(s)
          \/ StreamEnrichFailed(s)
          \/ StreamFinish(s)
    \/ \E c \in LessonTasks :
          \/ LessonReuses(c)
          \/ LessonAnalyzes(c)
          \/ LessonStored(c)
    \/ BackgroundStarts
    \/ BackgroundEnriched
    \/ BackgroundFailed

AudioSpec == AudioInit /\ [][AudioNext]_vars

(***************************************************************************)
(* The chat turn: _parse_chat_response                                     *)
(***************************************************************************)
ChatInit ==
    /\ out = <<>>
    /\ out2 = <<>>
    /\ \/ /\ pc = "chat_raw"
          /\ input \in ChatInputs
          /\ events = <<>>
       \/ /\ pc = "chat_parsed"
          /\ input = [events |-> <<>>]
          /\ events \in DirectInputs

\* parsed_events = _process_event_stream(raw_events, step_number=None, ...)
ChatProcess ==
    /\ pc = "chat_raw"
    /\ input.events # <<>>
    /\ events' = ProcessChatEvents(input.events, 0)
    /\ pc' = "chat_parsed"
    /\ UNCHANGED <<input, out, out2>>

\* else: data["events"] = []
ChatNoEvents ==
    /\ pc = "chat_raw"
    /\ input.events = <<>>
    /\ out' = <<>>
    /\ pc' = "chat_empty"
    /\ UNCHANGED <<input, events, out2>>

\* data["events"] = _mark_chat_events_temporary(parsed_events)
ChatMark ==
    /\ pc = "chat_parsed"
    /\ out' = MarkChatEventsTemporary(events, 1)
    /\ pc' = "chat_done"
    /\ UNCHANGED <<input, events, out2>>

\* handle_message, chat_service.py 238-242: the events of the parsed
\* response if there are any, else events built from its text
HandleMessage ==
    /\ pc \in {"chat_done", "chat_empty"}
    /\ \E response \in ChatReplies, step_title \in {{}, {"Solve"}} :
          out2' = IF out # <<>> THEN out ELSE BuildChatEvents(response, step_title, 2)
    /\ pc' = "chat_attached"
    /\ UNCHANGED <<input, events, out>>

ChatNext == ChatProcess \/ ChatNoEvents \/ ChatMark \/ HandleMessage

ChatSpec == ChatInit /\ [][ChatNext]_vars

(***************************************************************************)
(* Properties                                                              *)
(***************************************************************************)
Repaired == pc \in {"repaired", "again"}

\* The visual events of evs, in order.
Visuals(evs) == SelectSeq(evs, LAMBDA e : IsVisualEvent(e.type))

IdsOf(evs) == [j \in 1..Len(evs) |-> evs[j].id]

IdSet(evs) == {evs[j].id : j \in 1..Len(evs)}

IsDerivationWrite(e) ==
    e.type \in WriteTypes /\ HasIn(e.payload, "lane", {"derivation"})

PlacementTriples ==
    {<<"given", "given", "given">>, <<"main", "work", "derivation">>,
     <<"scratch", "scratch", "scratch">>, <<"final", "final", "final">>}

PlacementConsistent(evs) ==
    \A j \in 1..Len(evs) :
        IsVisualEvent(evs[j].type) =>
            /\ {"zone", "anchor", "lane"} \subseteq DOMAIN evs[j].payload
            /\ <<evs[j].payload["zone"], evs[j].payload["anchor"],
                 evs[j].payload["lane"]>> \in PlacementTriples

\* C1: every visual event produced by normalization of the model's raw events
\* and every visual event of a repaired step has a (zone, anchor, lane) triple
\* of the fixed bijection, whichever subset of the three the raw event supplied.
C1_PlacementConsistency ==
    /\ (pc = "normalized" /\ input.events # <<>>) => PlacementConsistent(events)
    /\ Repaired => PlacementConsistent(out)

\* The sum of reserve_height + gap over the visual events of evs, from index j
\* on, that are assigned to page p and lane l.
RECURSIVE LaneLoad(_, _, _, _)
LaneLoad(evs, j, p, l) ==
    IF j > Len(evs) THEN 0
    ELSE (IF /\ IsVisualEvent(evs[j].type)
             /\ HasIn(evs[j].payload, "board_page", {p})
             /\ HasIn(evs[j].payload, "lane", {l})
          THEN evs[j].payload["reserve_height"] + 14000 ELSE 0)
         + LaneLoad(evs, j + 1, p, l)

\* C2: after pagination, on every board page and in every lane the sum of
\* reserve_height + 14 over the visual events assigned there is within the
\* budget of the lane.
C2_PaginationNeverOverflows ==
    Repaired =>
        \A p \in 0..8, l \in AllowedLanes : LaneLoad(out, 1, p, l) <= LaneHeightBudget(l)

\* C3: a repaired step holds at least one narrate, at least two visual events
\* and at least one annotate, and ends with a pause.
C3_RepairSufficiency ==
    Repaired =>
        /\ CountType(out, {"narrate"}) >= 1
        /\ CountType(out, VisualTypes) >= 2
        /\ CountType(out, {"annotate"}) >= 1
        /\ Len(out) > 0 /\ out[Len(out)].type = "pause"

\* C4: repairing a repaired step returns the same events, in the same order,
\* with the same payloads.
C4_RepairIdempotent == pc = "again" => out2 = out

ChainStable(v) ==
    \A j \in 1..(Len(v) - 1) :
        IsDerivationWrite(v[j]) /\ IsDerivationWrite(v[j + 1]) =>
            /\ Has(v[j].payload, "transform_chain_id")
            /\ Has(v[j + 1].payload, "transform_chain_id")
            /\ v[j].payload["transform_chain_id"] = v[j + 1].payload["transform_chain_id"]

\* C5: in a finalized step, derivation write_equation / write_text events that
\* follow one another with no other visual event between them carry the same
\* transform_chain_id.
C5_ChainStability == Repaired => ChainStable(Visuals(out))

\* The events the adapter generates itself carry ids built on the group id.
ChatGenerated(e) == e.id[1] \in {"chat_{}_clear_{}", "chat_{}_pause"}

ChatRetained(evs) == SelectSeq(evs, LAMBDA e : ~ChatGenerated(e))

ChatRetainedVisuals(evs) ==
    SelectSeq(evs, LAMBDA e : ~ChatGenerated(e) /\ IsVisualEvent(e.type))

\* The indexes of the input events the claim expects to be retained: the first
\* narrate, the first four events of a visual type or annotate, and every other
\* event that is neither a step_marker nor a pause.
ChatExpectedIdx(evs) ==
    {j \in 1..Len(evs) :
        CASE evs[j].type = "narrate" ->
               Cardinality({i \in 1..(j - 1) : evs[i].type = "narrate"}) < 1
          [] evs[j].type \in VisualTypes \cup {"annotate"} ->
               Cardinality({i \in 1..(j - 1) :
                               evs[i].type \in VisualTypes \cup {"annotate"}}) < 4
          [] OTHER -> evs[j].type \notin {"step_marker", "pause"}}

\* The elements of evs at the indexes idx, in order.
Restrict(evs, idx) ==
    [n \in 1..Cardinality(idx) |->
        evs[CHOOSE j \in idx : Cardinality({i \in idx : i <= j}) = n]]

\* C6: the adapter's output holds at most one narrate and at most four events
\* of a visual type or annotate; the retained events are the first ones of the
\* input, in input order; no step_marker and no pause of the input remains.
C6_ChatCaps ==
    pc = "chat_done" =>
        /\ CountType(out, {"narrate"}) <= 1
        /\ CountType(out, VisualTypes \cup {"annotate"}) <= 4
        /\ IdsOf(ChatRetained(out)) = IdsOf(Restrict(events, ChatExpectedIdx(events)))
        /\ \A j \in 1..Len(out) :
              /\ out[j].type # "step_marker"
              /\ out[j].type = "pause" => ChatGenerated(out[j])

\* C6 at work: an input with a second narrate, a fifth visual-or-annotate
\* event and a pause, of which one narrate and four others are retained.
C6_Witness ==
    /\ pc = "chat_done"
    /\ CountType(events, {"narrate"}) >= 2
    /\ CountType(events, VisualTypes \cup {"annotate"}) >= 5
    /\ CountType(out, {"narrate"}) = 1
    /\ CountType(out, VisualTypes \cup {"annotate"}) = 4

\* C7: every event of the adapter's output is temporary and carries the one
\* group id; every visual event is placed in scratch (zone, anchor, lane).
C7_ChatTemporaryScratch ==
    pc = "chat_done" =>
        \A j \in 1..Len(out) :
            /\ HasIn(out[j].payload, "temporary", {TRUE})
            /\ HasIn(out[j].payload, "group_id", {out[1].payload["group_id"]})
            /\ IsVisualEvent(out[j].type) =>
                  /\ HasIn(out[j].payload, "zone", {"scratch"})
                  /\ HasIn(out[j].payload, "anchor", {"scratch"})
                  /\ HasIn(out[j].payload, "lane", {"scratch"})

\* C7 at work: the model placed a visual in the main zone under a group id of
\* its own and marked another visual as not temporary; both are retained.
C7_Witness ==
    /\ pc = "chat_done"
    /\ \E j \in 1..Len(events) :
          /\ IsVisualEvent(events[j].type)
          /\ HasIn(events[j].payload, "zone", {"main"})
          /\ HasIn(events[j].payload, "group_id", {Lit("g")})
    /\ \E j \in 1..Len(events) :
          /\ IsVisualEvent(events[j].type)
          /\ HasIn(events[j].payload, "temporary", {FALSE})
    /\ Len(ChatRetainedVisuals(out)) >= 2

ChatIsCleanupOf(e, id) ==
    /\ ChatGenerated(e)
    /\ e.type = "clear_section"
    /\ HasIn(e.payload, "clear_target", {"id"})
    /\ HasIn(e.payload, "clear_id", {id})

\* C8: every retained visual event has exactly one generated clear_section
\* with clear_target = id and its id as clear_id, and every generated cleanup
\* refers to a retained visual event.
C8_ChatCleanup ==
    pc = "chat_done" =>
        /\ \A v \in IdSet(ChatRetainedVisuals(out)) :
              Cardinality({j \in 1..Len(out) : ChatIsCleanupOf(out[j], v)}) = 1
        /\ \A j \in 1..Len(out) :
              (ChatGenerated(out[j]) /\ out[j].type = "clear_section") =>
                  \E v \in IdSet(ChatRetainedVisuals(out)) : ChatIsCleanupOf(out[j], v)

\* C8 at work: two visuals are retained next to an annotate and a
\* clear_section of the model, and a further visual of the input is dropped.
C8_Witness ==
    /\ pc = "chat_done"
    /\ Len(ChatRetainedVisuals(out)) >= 2
    /\ CountType(ChatRetained(out), {"annotate"}) >= 1
    /\ CountType(events, VisualTypes) > Len(ChatRetainedVisuals(out))

\* The first event of evs that is not a step_marker, as a set.
FirstNonMarker(evs) ==
    LET idx == {j \in 1..Len(evs) : evs[j].type # "step_marker"}
    IN  IF idx = {} THEN {} ELSE {CHOOSE j \in idx : \A k \in idx : j <= k}

PositionOf(evs, id) == CHOOSE j \in 1..Len(evs) : evs[j].id = id

\* C9: the first event of a repaired step that is not a step_marker is a
\* narrate; the input events keep their order, and when the first content
\* event of the input is not a narrate, a synthesized narration precedes it.
C9_LeadingNarrate ==
    pc = "repaired" =>
        /\ FirstNonMarker(out) # {}
        /\ \A j \in FirstNonMarker(out) : out[j].type = "narrate"
        /\ IdsOf(SelectSeq(out, LAMBDA e : e.id \in IdSet(events))) = IdsOf(events)
        /\ \A j \in FirstNonMarker(events) :
              events[j].type # "narrate" =>
                  \E k \in 1..(PositionOf(out, events[j].id) - 1) :
                      out[k].type = "narrate" /\ out[k].id \notin IdSet(events)

\* C9 at work: the input has a narrate, but a visual comes first; the setup
\* narration is inserted in front of the visual.
C9_Witness ==
    /\ pc = "repaired"
    /\ CountType(events, {"narrate"}) >= 1
    /\ \E j \in FirstNonMarker(events) : IsVisualEvent(events[j].type)
    /\ \E k \in 1..Len(out) : out[k].id = GenerateEventId(1, 905, 1)

\* C10: in a repaired step every derivation write_text / write_equation
\* carries a transform_chain_id, a board_page, a slot_index, layout_locked =
\* true and an integer render_order.
C10_DerivationMetadata ==
    pc = "repaired" =>
        \A j \in 1..Len(out) :
            IsDerivationWrite(out[j]) =>
                /\ Truthy(out[j].payload, "transform_chain_id")
                /\ Has(out[j].payload, "board_page")
                /\ out[j].payload["board_page"] \in Int
                /\ Has(out[j].payload, "slot_index")
                /\ out[j].payload["slot_index"] \in Int
                /\ HasIn(out[j].payload, "layout_locked", {TRUE})
                /\ Has(out[j].payload, "render_order")
                /\ out[j].payload["render_order"] \in Int

\* C10 at work: an equation handed to repair with neither placement nor
\* layout metadata leaves it as a planned derivation event, next to the
\* write_text repair synthesized.
C10_Witness ==
    /\ pc = "repaired"
    /\ \E j \in 1..Len(events) :
          /\ events[j].type = "write_equation"
          /\ DOMAIN events[j].payload = {"latex", "display"}
          /\ IsDerivationWrite(out[PositionOf(out, events[j].id)])
    /\ \E k \in 1..Len(out) :
          out[k].id = GenerateEventId(1, 910, 1) /\ IsDerivationWrite(out[k])

\* C11: in a repaired step every narrate carries a teaching_phase of the
\* allowed set, and a narrate that came with a teaching_phase keeps it.
C11_NarratePhase ==
    pc = "repaired" =>
        /\ \A j \in 1..Len(out) :
              out[j].type = "narrate" =>
                  HasIn(out[j].payload, "teaching_phase", AllowedTeachingPhases)
        /\ \A j \in 1..Len(events) :
              (events[j].type = "narrate" /\ Has(events[j].payload, "teaching_phase")) =>
                  out[PositionOf(out, events[j].id)].payload["teaching_phase"]
                      = events[j].payload["teaching_phase"]

\* C11 at work: a narrate that says "notice" came with the phase result and
\* keeps it, next to a narrate without a phase that gets one from its keywords.
C11_Witness ==
    /\ pc = "repaired"
    /\ \E j \in 1..Len(events) :
          /\ events[j].type = "narrate"
          /\ HasIn(events[j].payload, "teaching_phase", {"result"})
          /\ "notice" \in TextInfo(TextOf(events[j].payload)).kw
          /\ out[PositionOf(out, events[j].id)].payload["teaching_phase"] = "result"
    /\ \E j \in 1..Len(events) :
          /\ events[j].type = "narrate"
          /\ ~Has(events[j].payload, "teaching_phase")
          /\ out[PositionOf(out, events[j].id)].payload["teaching_phase"] = "checkpoint"

\* What the fallback synthesizer is to emit for a step: the marker, the
\* narration of the title, the content if there is any, the math blocks in
\* input order and the pause, the written events placed in the derivation lane.
FallbackShape(step, evs) ==
    LET c == IF step.content # "" THEN 1 ELSE 0
        n == Len(step.math_blocks)
    IN  /\ Len(evs) = 3 + c + n
        /\ evs[1].type = "step_marker"
        /\ evs[2].type = "narrate"
        /\ evs[2].payload["text"] = StepTitleText(step.step_number, step.title)
        /\ c = 1 => (evs[3].type = "write_text" /\ evs[3].payload["text"] = step.content)
        /\ \A j \in 1..n :
              /\ evs[2 + c + j].type = "write_equation"
              /\ evs[2 + c + j].payload["latex"] = step.math_blocks[j]["latex"]
        /\ evs[Len(evs)].type = "pause"
        /\ \A j \in 1..Len(evs) :
              evs[j].type \in WriteTypes =>
                  /\ HasIn(evs[j].payload, "zone", {"main"})
                  /\ HasIn(evs[j].payload, "anchor", {"work"})
                  /\ HasIn(evs[j].payload, "lane", {"derivation"})
                  /\ HasIn(evs[j].payload, "align", {"left"})

\* C12: for a step without events, the fallback synthesizer emits, in this
\* order, a step_marker, a narrate of the title, a write_text of the content
\* iff there is content, a write_equation per math block and a pause; the
\* written events have zone = main, anchor = work, lane = derivation and
\* align = left.
C12_FallbackOrder == [][FallbackStep => FallbackShape(input, events')]_vars

\* C12 at work: a step with content and two different math blocks went
\* through the fallback, which emitted six events.
C12_Witness ==
    /\ pc = "normalized"
    /\ input.content # ""
    /\ Len(input.math_blocks) = 2
    /\ input.math_blocks[1] # input.math_blocks[2]
    /\ Len(events) = 6

\* The step holds one raw event, a write_equation without placement fields.
SingleEquationStep ==
    /\ Len(input.events) = 1
    /\ RawType(input.events[1]) = "write_equation"
    /\ DOMAIN input.events[1]
           \cap {"zone", "board_zone", "anchor", "board_anchor", "lane"} = {}

\* The parts of the scenario other than the phase of the opening narration.
SingleEquationRest ==
    /\ \E j \in 1..Len(events) :
          /\ events[j].type = "write_equation"
          /\ LET e == out[PositionOf(out, events[j].id)]
             IN  /\ HasIn(e.payload, "zone", {"main"})
                 /\ HasIn(e.payload, "anchor", {"work"})
                 /\ HasIn(e.payload, "lane", {"derivation"})
    /\ Cardinality({j \in 1..Len(out) :
                       IsVisualEvent(out[j].type) /\ out[j].id \notin IdSet(events)}) = 1
    /\ Cardinality({j \in 1..Len(out) :
                       /\ out[j].type = "annotate"
                       /\ out[j].id \notin IdSet(events)
                       /\ Has(out[j].payload, "target_id")
                       /\ {out[j].payload["target_id"]} = LastVisualId(out)}) = 1
    /\ HasCheckpointNarrate(out)
    /\ out[Len(out)].type = "pause"

\* C13: a step whose only raw event is a write_equation without placement is
\* repaired to: the step marker, a synthesized narrate with teaching_phase =
\* setup, the equation in (main, work, derivation), one synthesized second
\* visual, one synthesized annotate that targets the last visual of the step,
\* a checkpoint narrate, and a closing pause.
C13_SingleEquationScenario ==
    (pc = "repaired" /\ SingleEquationStep) =>
        /\ out[1].type = "step_marker"
        /\ out[2].type = "narrate"
        /\ out[2].id \notin IdSet(events)
        /\ HasIn(out[2].payload, "teaching_phase", {"setup"})
        /\ SingleEquationRest

\* The indexes of the raw records whose type is recognized, in order.
KnownIdx(raw_events) ==
    LET idx == {j \in 1..Len(raw_events) : RawType(raw_events[j]) \in KnownTypes}
    IN  Restrict([j \in 1..Len(raw_events) |-> j], idx)

\* The event emitted for a raw record has its type and its content, the empty
\* string standing for content the record lacks.
EmittedFor(e, raw) ==
    /\ e.type = RawType(raw)
    /\ e.type = "write_equation" =>
          e.payload["latex"] = (IF Has(raw, "latex") THEN raw["latex"] ELSE "")
    /\ e.type \in {"write_text", "narrate"} =>
          e.payload["text"] = (IF Has(raw, "text") THEN raw["text"] ELSE "")

\* C14: normalization emits, after the step marker, exactly one event for
\* each raw record of a recognized type, in the order of the records, and none
\* for a record of unknown type, wherever it stands; a record that lacks its
\* latex or text is emitted with the empty string.
C14_UnknownTypesDropped ==
    (pc = "normalized" /\ input.events # <<>>) =>
        LET k == KnownIdx(input.events)
        IN  /\ Len(events) = 1 + Len(k)
            /\ \A n \in 1..Len(k) :
                  /\ events[n + 1].id = GenerateEventId(input.step_number, k[n], 0)
                  /\ EmittedFor(events[n + 1], input.events[k[n]])

\* C14 at work: a record of unknown type stands between two recognized
\* records, one of which lacks its content; both are emitted.
C14_Witness ==
    /\ pc = "normalized"
    /\ Len(input.events) = 3
    /\ RawType(input.events[2]) \notin KnownTypes
    /\ DOMAIN input.events[1] = {"type"}
    /\ Len(events) = 3
    /\ events[2].type = "write_equation"
    /\ events[2].payload["latex"] = ""
    /\ events[3].id = GenerateEventId(1, 3, 0)

\* C15: every event attached to a chat response is temporary and every
\* visual event among them is in the scratch lane, whether the events are the
\* model's or are built from the message, the narration and the math blocks.
C15_ChatResponseEvents ==
    pc = "chat_attached" =>
        \A j \in 1..Len(out2) :
            /\ HasIn(out2[j].payload, "temporary", {TRUE})
            /\ IsVisualEvent(out2[j].type) => HasIn(out2[j].payload, "lane", {"scratch"})

\* In the paginator's loop: the last iteration placed a visual event.
Placed == pc = "page" /\ out > 1 /\ IsVisualEvent(input[out - 1].type)

\* The event of the last iteration as it was, its payload as it is, and the
\* layout state before and after.
PlacedBefore == out2.events[out - 1].payload

PlacedAfter == events.events[out - 1].payload

\* The last iteration found the cursor of the event's lane too far down.
Overflowed ==
    out2.st.lane_cursor[PlacedAfter["lane"]] + PlacedAfter["reserve_height"]
        > LaneHeightBudget(PlacedAfter["lane"])

\* The event of the last iteration was placed as the first of an empty page.
PlacedOnFreshPage ==
    \A l \in AllowedLanes :
        IF l = PlacedAfter["lane"]
        THEN /\ events.st.lane_cursor[l] = 8000 + PlacedAfter["reserve_height"] + 14000
             /\ events.st.lane_slot[l] = 1
        ELSE /\ events.st.lane_cursor[l] = 8000
             /\ events.st.lane_slot[l] = 0

\* The event of the last iteration was placed below what its page held.
PlacedBelow ==
    \A l \in AllowedLanes :
        IF l = PlacedAfter["lane"]
        THEN /\ events.st.lane_cursor[l]
                   = out2.st.lane_cursor[l] + PlacedAfter["reserve_height"] + 14000
             /\ events.st.lane_slot[l] = out2.st.lane_slot[l] + 1
        ELSE /\ events.st.lane_cursor[l] = out2.st.lane_cursor[l]
             /\ events.st.lane_slot[l] = out2.st.lane_slot[l]

\* C16: a visual event without a board_page of its own that would overflow
\* its lane advances the page by one, up to 8, is placed on that page after
\* the cursors and slot counters of all lanes are reset, and is marked as the
\* page turn; one that does not overflow stays on the current page and is
\* given no mark.
C16_PageTurn ==
    (Placed /\ ~Has(PlacedBefore, "board_page")) =>
        IF Overflowed
        THEN /\ events.st.page = Min(out2.st.page + 1, 8)
             /\ HasIn(PlacedAfter, "board_page", {events.st.page})
             /\ HasIn(PlacedAfter, "is_page_turn_marker", {TRUE})
             /\ PlacedOnFreshPage
             /\ ~Has(PlacedBefore, "slot_index") => PlacedAfter["slot_index"] = 0
        ELSE /\ events.st.page = out2.st.page
             /\ HasIn(PlacedAfter, "board_page", {out2.st.page})
             /\ PlacedBelow
             /\ Has(PlacedAfter, "is_page_turn_marker")
                    = Has(PlacedBefore, "is_page_turn_marker")
             /\ Has(PlacedBefore, "is_page_turn_marker") =>
                   PlacedAfter["is_page_turn_marker"] = PlacedBefore["is_page_turn_marker"]

\* C16 at work: on page 8, with two lanes in use, an event overflows its lane;
\* the page stays 8 and the event is marked.
C16_Witness ==
    /\ Placed
    /\ ~Has(PlacedBefore, "board_page")
    /\ Overflowed
    /\ out2.st.page = 8
    /\ \E l \in AllowedLanes \ {PlacedAfter["lane"]} : out2.st.lane_slot[l] > 0
    /\ HasIn(PlacedAfter, "is_page_turn_marker", {TRUE})

\* C17: a visual event that carries its own board_page keeps that page, the
\* current page becomes that page, and the event is placed after the cursors
\* and slot counters of all lanes are reset.
C17_ExplicitPage ==
    (Placed /\ Has(PlacedBefore, "board_page")) =>
        /\ HasIn(PlacedAfter, "board_page", {PlacedBefore["board_page"]})
        /\ events.st.page = PlacedBefore["board_page"]
        /\ PlacedOnFreshPage

\* The values of a resolved field that a raw record may validly supply.
ValidFor ==
    [zone |-> AllowedZones, anchor |-> AllowedAnchors, lane |-> AllowedLanes,
     intent |-> AllowedIntents, teaching_phase |-> AllowedTeachingPhases,
     scene_template |-> AllowedSceneTemplates, slot_role |-> AllowedSlotRoles,
     scene_id |-> {Lit("intro")}]

\* The resolved payload carries the valid value the raw record supplied for
\* the field.
KeepsSupplied(raw, payload, field) ==
    HasIn(raw, field, ValidFor[field]) => HasIn(payload, field, {raw[field]})

\* C18: for each of zone, anchor, lane, intent, teaching_phase,
\* scene_template, slot_role and scene_id, a valid value supplied by the raw
\* record of a visual event is the value of the resolved payload, whatever
\* the record supplied for the other fields.
C18_OnlyFillsMissing ==
    (pc = "normalized" /\ input.events # <<>>) =>
        LET k == KnownIdx(input.events)
        IN  \A n \in 1..Len(k) :
                IsVisualEvent(events[n + 1].type) =>
                    \A field \in DOMAIN ValidFor :
                        KeepsSupplied(input.events[k[n]], events[n + 1].payload, field)

\* The id of the checkpoint narration that the first repair synthesizes.
CheckpointId == GenerateEventId(input.step_number, 930, 1)

\* Some narrate of evs other than the synthesized checkpoint narration has
\* the teaching phase checkpoint.
OtherCheckpointNarrate(evs) ==
    \E j \in 1..Len(evs) :
        /\ evs[j].type = "narrate"
        /\ evs[j].id # CheckpointId
        /\ HasIn(evs[j].payload, "teaching_phase", {"checkpoint"})

\* The synthesized checkpoint narration stands right behind the first annotate.
CheckpointAfterFirstAnnotate(evs) ==
    LET idx == {j \in 1..Len(evs) : evs[j].type = "annotate"}
    IN  /\ idx # {}
        /\ PositionOf(evs, CheckpointId) = 1 + (CHOOSE j \in idx : \A k \in idx : j <= k)

\* C19: repair inserts the synthesized checkpoint narration exactly when,
\* with the teaching phases inferred from the keywords, no other narrate of
\* the step is a checkpoint; an inserted one follows the first annotate
\* directly.
C19_CheckpointInserted ==
    pc = "repaired" =>
        /\ (CheckpointId \in IdSet(out)) = ~OtherCheckpointNarrate(out)
        /\ CheckpointId \in IdSet(out) => CheckpointAfterFirstAnnotate(out)

\* C20: in the output of a chat turn, a visual event whose raw record
\* supplied no intent has the intent side_note, whatever placement the record
\* supplied.
C20_ChatIntentSideNote ==
    pc = "chat_done" =>
        LET k == KnownIdx(input.events)
        IN  \A n \in 1..Len(k) :
                (/\ IsVisualEvent(events[n].type)
                 /\ ~Has(input.events[k[n]], "intent")
                 /\ events[n].id \in IdSet(out)) =>
                    HasIn(out[PositionOf(out, events[n].id)].payload, "intent", {"side_note"})

\* evs is retained events, then generated cleanup events, then one pause,
\* which is temporary and of the group; there is no other pause.
ChatOutputForm(evs) ==
    /\ Len(evs) >= 1
    /\ \E r \in 0..(Len(evs) - 1) :
          /\ \A j \in 1..r : ~ChatGenerated(evs[j])
          /\ \A j \in (r + 1)..(Len(evs) - 1) :
                ChatGenerated(evs[j]) /\ evs[j].type = "clear_section"
    /\ evs[Len(evs)].type = "pause"
    /\ HasIn(evs[Len(evs)].payload, "temporary", {TRUE})
    /\ HasIn(evs[Len(evs)].payload, "group_id", {ChatGroupId(1)})
    /\ \A j \in 1..Len(evs) : HasIn(evs[j].payload, "group_id", {ChatGroupId(1)})
    /\ CountType(evs, {"pause"}) = 1

\* C21 as stated: the output of the adapter for every chat event list is the
\* retained events, then the generated cleanup events, then exactly one
\* pause, which is last, temporary and of the shared group.
C21_ChatOutputForm == pc = "chat_done" => ChatOutputForm(out)

\* C21 as amended: the output has that form whenever the adapter retains an
\* event of the list; when it retains none the output is empty, without pause.
C21_ChatOutputFormIfRetained ==
    pc = "chat_done" =>
        IF ChatExpectedIdx(events) # {} THEN ChatOutputForm(out) ELSE out = <<>>

\* C21 at work: the input holds pauses before and after a visual; the output
\* is the visual, its cleanup and the one generated pause.
C21_Witness ==
    /\ pc = "chat_done"
    /\ Len(events) = 3
    /\ events[1].type = "pause"
    /\ events[3].type = "pause"
    /\ IsVisualEvent(events[2].type)
    /\ Len(out) = 3
    /\ ChatIsCleanupOf(out[2], out[1].id)
    /\ out[3].id = ChatPauseId(1)

\* The render_order of the event of evs with the id, as a set.
RenderOrderIn(evs, id) ==
    {evs[j].payload["render_order"] :
        j \in {k \in 1..Len(evs) : evs[k].id = id /\ Has(evs[k].payload, "render_order")}}

\* C22: in a repaired step the visual events carry the render_order values
\* 0, 1, 2, ... in emission order, whatever the model supplied, and
\* layout_locked = true; an event that is not visual has the render_order it
\* came with, or none.
C22_RenderOrder ==
    pc = "repaired" =>
        /\ \A n \in 1..Len(Visuals(out)) :
              /\ HasIn(Visuals(out)[n].payload, "render_order", {n - 1})
              /\ HasIn(Visuals(out)[n].payload, "layout_locked", {TRUE})
        /\ \A j \in 1..Len(out) :
              ~IsVisualEvent(out[j].type) =>
                  RenderOrderIn(out, out[j].id) = RenderOrderIn(events, out[j].id)

\* C22 at work: the model gave the second visual the render_order 5 and an
\* unlocked layout, the first none, and a narration the render_order 3.
C22_Witness ==
    /\ pc = "repaired"
    /\ Len(input.events) = 3
    /\ ~Has(input.events[1], "render_order")
    /\ IsVisualEvent(RawType(input.events[1]))
    /\ HasIn(input.events[2], "render_order", {5})
    /\ HasIn(input.events[2], "layout_locked", {FALSE})
    /\ HasIn(input.events[3], "render_order", {3})
    /\ Visuals(out)[2].payload["render_order"] = 1
    /\ \E j \in 1..Len(out) :
          out[j].type = "narrate" /\ HasIn(out[j].payload, "render_order", {3})

\* The payload without the two fields that carry the audio.
WithoutAudio(payload) == Pop(Pop(payload, "audio_url"), "audio_duration")

\* The event after enrichment differs from the event before in nothing but
\* the duration and the audio fields of the payload.
SameButAudio(after, before) ==
    /\ after.id = before.id
    /\ after.type = before.type
    /\ WithoutAudio(after.payload) = WithoutAudio(before.payload)

\* C23: audio enrichment keeps the number and order of the steps' events,
\* leaves every event that is not a narrate as it is, changes of a narrate
\* nothing but duration, audio_url and audio_duration, and leaves a narrate
\* as it is when its synthesis raised or brought no audio; of a step it sets
\* nothing but audio_url and audio_duration.
C23_EnrichOnlyNarrate ==
    pc = "enriched" =>
        /\ Len(out) = Len(input)
        /\ \A s \in 1..Len(input) :
              /\ DOMAIN out[s] = DOMAIN input[s] \cup {"audio_url", "audio_duration"}
              /\ \A f \in DOMAIN input[s] \ {"events"} : out[s][f] = input[s][f]
              /\ Len(out[s].events) = Len(input[s].events)
              /\ \A j \in 1..Len(input[s].events) :
                    /\ SameButAudio(out[s].events[j], input[s].events[j])
                    /\ input[s].events[j].type # "narrate" =>
                          out[s].events[j] = input[s].events[j]
                    /\ (<<s, j>> \in DOMAIN events /\ ~HasAudio(events[<<s, j>>])) =>
                          out[s].events[j] = input[s].events[j]

\* C23 at work: in a lesson of two steps one narration got its audio, the
\* synthesis of another raised and a third brought a url without a duration.
C23_Witness ==
    /\ pc = "enriched"
    /\ Len(out) = 2
    /\ \E a, b, c \in DOMAIN events :
          /\ a[1] # b[1]
          /\ HasAudio(events[a])
          /\ out[a[1]].events[a[2]].duration = 3000
          /\ out[a[1]].events[a[2]].payload["audio_url"] = "/audio/a.mp3"
          /\ events[b].raised
          /\ ~events[c].raised /\ events[c].audio_url # {} /\ events[c].duration = 0
    /\ \E s \in 1..2 : out[s].audio_duration = 3 /\ out[s].audio_url = {"/audio/a.mp3"}

\* What the task yields when its invocation runs alone.
RunAlone(task) ==
    IF task.kind = "step"
    THEN RepairStepEvents(ProcessGeminiEvents(task.step, 0), task.step.step_number,
                          task.step.title, 1)
    ELSE MarkChatEventsTemporary(ProcessChatEvents(task.step.events, 0), 1)

\* C24: when the loops of two invocations (two steps, or a step and a chat
\* turn) run interleaved, one iteration at a time in any order, each
\* invocation ends with the events it yields when it runs alone: types,
\* order, placement, pages, slots, render order and chain ids.
C24_InterleavingSafe ==
    \A w \in 1..2 : pc[w] = "done" => out[w] = RunAlone(input[w])

\* C24 at work: two steps are done whose paginators each placed an event
\* while the other was between two events; one turned the page, the other
\* did not.
C24_Witness ==
    /\ pc = <<"done", "done">>
    /\ events[1].overlapped
    /\ events[2].overlapped
    /\ \E j \in 1..Len(out[1]) : HasIn(out[1][j].payload, "is_page_turn_marker", {TRUE})
    /\ \A j \in 1..Len(out[2]) : ~Has(out[2][j].payload, "is_page_turn_marker")
    /\ \E j \in 1..Len(out[2]) : HasIn(out[2][j].payload, "transform_chain_id", {Lit("a")})

\* The types the duration formulas speak of.
TimedTypes == VisualTypes \cup {"narrate", "annotate", "clear_section", "pause"}

\* The duration the formulas give an event of its type and content.
FormulaDuration(e) ==
    CASE e.type = "narrate" -> Max(1500, 400 * TextInfo(TextOf(e.payload)).words)
      [] e.type = "write_equation" -> Max(1200, 50 * LatexInfo(LatexOf(e.payload)).len)
      [] e.type = "write_text" -> Max(800, 30 * TextInfo(TextOf(e.payload)).len)
      [] e.type \in {"draw_line", "draw_arrow"} -> 900
      [] e.type \in {"draw_rect", "draw_circle"} -> 1000
      [] e.type = "draw_axes" -> 1300
      [] e.type = "plot_curve" -> Max(1000, 450 + 80 * PointsOf(e.payload))
      [] e.type = "annotate" -> 600
      [] e.type = "clear_section" -> 400
      [] e.type = "pause" -> 1200

\* The step went through normalization or through the text-only fallback.
FromModelOrFallback ==
    events # <<>> /\ events[1].id = GenerateEventId(input.step_number, 0, 0)

\* C25: every event of a finalized step, normalized or built by the fallback
\* and then repaired, has the duration that the formula of its type gives for
\* its content.
C25_FormulaDurations ==
    (pc = "repaired" /\ FromModelOrFallback) =>
        \A j \in 1..Len(out) :
            out[j].type \in TimedTypes => out[j].duration = FormulaDuration(out[j])

\* The ids and types of the events of evs, in order.
IdsAndTypes(evs) == [j \in 1..Len(evs) |-> <<evs[j].id, evs[j].type>>]

\* after holds every event of before exactly once, with its id and type and
\* in the order of before.
OnlyAdds(before, after) ==
    /\ IdsAndTypes(SelectSeq(after, LAMBDA e : e.id \in IdSet(before))) = IdsAndTypes(before)
    /\ Len(after) >= Len(before)

\* C26: repair only adds events: each event of its input is in its output
\* exactly once with the same id and type, in the same relative order.
C26_RepairOnlyAdds ==
    /\ pc = "repaired" => OnlyAdds(events, out)
    /\ pc = "again" => OnlyAdds(out, out2)

\* C26 at work: repair put events before, between and behind the three
\* events of its input.
C26_Witness ==
    /\ pc = "repaired"
    /\ Len(events) = 3
    /\ Len(out) >= 7
    /\ out[2].id \notin IdSet(events)
    /\ out[Len(out)].id \notin IdSet(events)
    /\ \E j \in 3..(Len(out) - 1) :
          /\ out[j].id \notin IdSet(events)
          /\ out[j + 1].id \in IdSet(events)

\* The page, lane and slot of a visual event.
SlotOf(e) == <<e.payload["board_page"], e.payload["lane"], e.payload["slot_index"]>>

\* No two visual events of evs have the same page, lane and slot.
SlotsDistinct(evs) ==
    \A i, j \in 1..Len(evs) :
        (i < j /\ IsVisualEvent(evs[i].type) /\ IsVisualEvent(evs[j].type)) =>
            SlotOf(evs[i]) # SlotOf(evs[j])

\* C27: in a repaired step no two visual events share their board_page, lane
\* and slot_index, however many events there are and whatever board_page or
\* slot_index the model supplied.
C27_SlotsDistinct == pc = "repaired" => SlotsDistinct(out)

\* In evs the visual event at b closes the chain that the derivation write
\* at a left open, and the derivation write at c is the next one after b.
ClosesAndReopens(evs, a, b, c) ==
    /\ a < b /\ b < c
    /\ IsDerivationWrite(evs[a])
    /\ \A j \in (a + 1)..(b - 1) : ~IsVisualEvent(evs[j].type)
    /\ IsVisualEvent(evs[b].type) /\ ~IsDerivationWrite(evs[b])
    /\ \A j \in (b + 1)..(c - 1) : ~IsDerivationWrite(evs[j])
    /\ IsDerivationWrite(evs[c])

\* The raw record names a chain of its own.
SuppliesChain(raw) ==
    Truthy(raw, "transform_chain_id") \/ Truthy(raw, "transformChainId")

\* C28: when a visual event of another lane or of a draw type closes an open
\* derivation chain, the next derivation write that names no chain of its
\* own gets a transform_chain_id other than that of the chain closed.
C28_ReopenedChainIsNew ==
    (pc = "normalized" /\ input.events # <<>>) =>
        LET k == KnownIdx(input.events)
        IN  \A a, b, c \in 1..Len(k) :
                (/\ ClosesAndReopens(events, a + 1, b + 1, c + 1)
                 /\ ~SuppliesChain(input.events[k[c]])) =>
                    events[c + 1].payload["transform_chain_id"]
                        # events[a + 1].payload["transform_chain_id"]

\* The ids of the temporary visual events of evs.
TemporaryVisualIds(evs) ==
    {evs[j].id : j \in {k \in 1..Len(evs) :
                          /\ IsVisualEvent(evs[k].type)
                          /\ HasIn(evs[k].payload, "temporary", {TRUE})}}

\* The clear_section clears a temporary visual of evs by its id, or the
\* scratch zone.
ClearsOverlayOnly(e, evs) ==
    \/ /\ HasIn(e.payload, "clear_target", {"id"})
       /\ HasIn(e.payload, "clear_id", TemporaryVisualIds(evs))
    \/ /\ HasIn(e.payload, "clear_target", {"zone"})
       /\ HasIn(e.payload, "clear_zone", {"scratch"})

\* C29: every clear_section of the adapter's output, the model's own
\* included, clears a temporary visual event of that output by its id or
\* clears the scratch zone; none clears the zone given, main or final.
C29_ChatClearsOverlayOnly ==
    pc = "chat_done" =>
        \A j \in 1..Len(out) :
            out[j].type = "clear_section" => ClearsOverlayOnly(out[j], out)

\* The enrichment runs of the session that have started and not returned.
RunsInFlight == Cardinality({s \in Streams : pc[s] = "enriching"}) + out.running

\* C30: at any time at most one narration-audio enrichment run of the
\* session is in flight, however create_lesson, the background audio task
\* and the inline enrichment of the streams interleave.
C30_OneEnrichmentInFlight == RunsInFlight <= 1

\* The paginator's loop ends with what ApplyPreplannedBoardMetadata returns.
PageLoopAgrees == pc = "paged" => events.events = ApplyPreplannedBoardMetadata(input)

====
